---- MODULE Spec2Model ----
(***************************************************************************)
(* cr0n-engine: the closed learning loop.                                  *)
(*                                                                         *)
(* Numbers.  Every weight, CTR, score and threshold of the source is a     *)
(* JavaScript double that the code rounds to four decimals                 *)
(* (Math.round(x * 10000) / 10000).  The model keeps them as integers in   *)
(* units of 1e-4 (Unit = 10000 is 1.0) and computes quotients exactly;     *)
(* Math.round is round-half-up.  Ranking positions are in tenths           *)
(* (35 is position 3.5).                                                   *)
(***************************************************************************)
EXTENDS Integers, Sequences, FiniteSets, TLC

VARIABLES
    weights,          \* WeightAdjuster.weights: the content weight vector
    learningCycles,   \* WeightAdjuster.learningCycles
    lastAllApplied    \* whether every action of the last runLearningCycle
                      \* call was already flagged learningApplied

contentVars == <<weights, learningCycles, lastAllApplied>>

VARIABLES
    defaultRows,      \* the row objects of the module-level constant
                      \* DEFAULT_MODEL_WEIGHTS: bucket -> (model -> weight)
    modelWeights,     \* ModelWeightManager.weights: bucket -> row reference
    adjustCalls,      \* number of adjustWeight calls made so far
    lastAdjust,       \* the bucket and model of the last adjustWeight call
    otherWeights,     \* the weights of a second ModelWeightManager
    lastOp            \* the last operation on a manager, and its arguments

storeVars ==
    <<defaultRows, modelWeights, adjustCalls, lastAdjust, otherWeights, lastOp>>

VARIABLES
    page,             \* the PageData handed to the bucketer and the scorer
    pageBucket,         \* the result of classify(page), "none" before the call
    pageScore         \* the result of calculateScore(page), Undefined before

pageVars == <<page, pageBucket, pageScore>>

VARIABLES
    round             \* the generateConsensus call in progress, if any

consensusVars == <<round>>

\* The engine: the providers it can reach, its resolved configuration, the
\* tables its router and its statistics read, its usage log, the caller's
\* outcome records, the cycle in progress, and how often each record was
\* stepped into the content weights and into the provider weights
VARIABLES
    registry, resolved, routerWeights, statsWeights, modelTracking,
    completedActions, cycle, cyclesRun, contentSteps, modelSteps

engineVars ==
    <<registry, resolved, routerWeights, statsWeights, modelTracking,
      completedActions, cycle, cyclesRun, contentSteps, modelSteps>>

\* What is on record about rounds: the order in which the calls of the round
\* in progress settled, the round run before it with the same arguments, and
\* the default rows as they were when the round was dispatched
VARIABLES
    completion, earlier, dispatchedRows

roundLogVars == <<completion, earlier, dispatchedRows>>

VARIABLES
    lastRoute         \* the outcome of the last TaskRouter.route call

routerVars == <<lastRoute>>

\* What is on record about success verdicts and content learning cycles
VARIABLES
    judged,           \* an outcome, the page as observed now, and the verdicts
                      \* the two evaluators returned for them
    cycleLog          \* the outcomes of the last content learning cycle and
                      \* the weights before and after each turn of its loop

recordVars == <<judged, cycleLog>>

vars ==
    <<contentVars, storeVars, pageVars, consensusVars, engineVars, roundLogVars,
      routerVars, recordVars>>

\* What an operation of one component leaves alone.
exceptContent ==
    <<storeVars, pageVars, consensusVars, engineVars, roundLogVars, routerVars,
      recordVars>>

exceptStore ==
    <<contentVars, pageVars, consensusVars, engineVars, roundLogVars, routerVars,
      recordVars>>

exceptPage ==
    <<contentVars, storeVars, consensusVars, engineVars, roundLogVars, routerVars,
      recordVars>>

exceptConsensus ==
    <<contentVars, storeVars, pageVars, engineVars, roundLogVars, routerVars,
      recordVars>>

----------------------------------------------------------------------------
(* Units and small arithmetic helpers                                      *)

Unit == 10000

Max(a, b) == IF a >= b THEN a ELSE b

Min(a, b) == IF a <= b THEN a ELSE b

Abs(a) == IF a >= 0 THEN a ELSE -a

\* Math.round(num / den) for num >= 0, den > 0: ties go up.
RoundDiv(num, den) == (2 * num + den) \div (2 * den)

RECURSIVE SumOver(_, _)
SumOver(f, S) ==
    IF S = {} THEN 0
    ELSE LET k == CHOOSE x \in S : TRUE IN f[k] + SumOver(f, S \ {k})

----------------------------------------------------------------------------
(* core/types.ts and core/constants.ts                                     *)

ACTION_BUCKETS ==
    {"CTR_FIX", "STRIKING_DISTANCE", "RELEVANCE_REBUILD", "LOCAL_BOOST", "MONITOR"}

WeightKeys == {"impressions", "position", "ctrGap", "conversions", "freshness"}

DEFAULT_WEIGHTS == [k \in WeightKeys |-> 2000]

MODEL_IDS == {"claude", "openai", "gemini", "grok"}

DEFAULT_MODEL_WEIGHTS == [b \in ACTION_BUCKETS |-> [m \in MODEL_IDS |-> 2500]]

\* The default clamp pair of adjustWeight and of ModelAdjuster.
ModelMinWeight == 500

ModelMaxWeight == 6000

LearningRate == 150

MinWeight == 500

MaxWeight == 5000

\* An optional field of SEOAction that is not set (resultCtr?: number, ...).
Undefined == -1

\* SUCCESS_CRITERIA[bucket].metric
CriteriaMetric(bucket) ==
    CASE bucket = "CTR_FIX"           -> "ctr"
      [] bucket = "STRIKING_DISTANCE" -> "position"
      [] bucket = "RELEVANCE_REBUILD" -> "impressions"
      [] bucket = "LOCAL_BOOST"       -> "clicks"
      [] bucket = "MONITOR"           -> "position"

\* SUCCESS_CRITERIA[bucket].improvement: a relative delta in percent for
\* ctr, impressions and clicks; positions (in tenths) for position.
CriteriaImprovement(bucket) ==
    CASE bucket = "CTR_FIX"           -> 20
      [] bucket = "STRIKING_DISTANCE" -> 20
      [] bucket = "RELEVANCE_REBUILD" -> 50
      [] bucket = "LOCAL_BOOST"       -> 30
      [] bucket = "MONITOR"           -> 0

----------------------------------------------------------------------------
(* learning/weight-adjuster.ts                                             *)

OrElse(v, dflt) == IF v = Undefined THEN dflt ELSE v

\* A relative delta computed without the guard on the baseline
RelativeDeltaUnguarded(base, res, pct) == (res - base) * 100 >= pct * base

\* delta >= improvement, for a relative delta (res - base) / base that the
\* code replaces by 0 when base is not positive.
RelativeDeltaMeets(base, res, pct) ==
    IF base > 0 THEN (res - base) * 100 >= pct * base ELSE 0 >= pct

\* evaluateActionSuccess(action).success
EvaluateActionSuccess(action) ==
    LET metric == CriteriaMetric(action.actionType)
        improvement == CriteriaImprovement(action.actionType)
    IN  CASE metric = "ctr" ->
               RelativeDeltaMeets(action.originalCtr,
                                  OrElse(action.resultCtr, action.originalCtr),
                                  improvement)
          [] metric = "position" ->
               action.originalPosition
                 - OrElse(action.resultPosition, action.originalPosition)
                 >= improvement
          [] metric = "impressions" ->
               RelativeDeltaMeets(action.originalImpressions,
                                  OrElse(action.resultImpressions,
                                         action.originalImpressions),
                                  improvement)
          [] metric = "clicks" ->
               RelativeDeltaMeets(action.originalClicks,
                                  OrElse(action.resultClicks, action.originalClicks),
                                  improvement)

GetWeightKeyForBucket(bucket) ==
    CASE bucket = "CTR_FIX"           -> "ctrGap"
      [] bucket = "STRIKING_DISTANCE" -> "position"
      [] bucket = "RELEVANCE_REBUILD" -> "impressions"
      [] bucket = "LOCAL_BOOST"       -> "conversions"
      [] bucket = "MONITOR"           -> "freshness"

\* The signed step of one outcome, in weight units: delta * learningRate with
\* delta = 1 on success and -0.5 on failure.
StepFor(success) == IF success THEN LearningRate ELSE -(LearningRate \div 2)

Clamp(v, lo, hi) == Max(lo, Min(hi, v))

\* An adjustment that takes the step back from the other four weights
ApplyAdjustmentRedistributing(w, weightKey, step) ==
    [k \in WeightKeys |->
        IF k = weightKey THEN Clamp(w[k] + step, MinWeight, MaxWeight)
        ELSE Clamp(w[k] - step \div 4, MinWeight, MaxWeight)]

\* applyAdjustment(weightKey, delta, reason): the new value of the weight;
\* a change below 0.0001 is dropped.
AdjustedValue(oldValue, step) ==
    LET newValue == Clamp(oldValue + step, MinWeight, MaxWeight)
    IN  IF Abs(newValue - oldValue) < 1 THEN oldValue ELSE newValue

ApplyAdjustment(w, weightKey, step) ==
    [w EXCEPT ![weightKey] = AdjustedValue(w[weightKey], step)]

\* normalizeWeights(): each weight divided by the total and rounded to four
\* decimals on its own.
NormalizeWeights(w) ==
    LET total == SumOver(w, WeightKeys)
    IN  IF total = 0 THEN w
        ELSE [k \in WeightKeys |-> RoundDiv(w[k] * Unit, total)]

\* The loop of runLearningCycle over completedActions[i..], in input order.
RECURSIVE ProcessActions(_, _, _)
ProcessActions(w, actions, i) ==
    IF i > Len(actions) THEN w
    ELSE LET action == actions[i]
         IN  IF action.learningApplied
             THEN ProcessActions(w, actions, i + 1)
             ELSE ProcessActions(
                    ApplyAdjustment(w,
                                    GetWeightKeyForBucket(action.actionType),
                                    StepFor(EvaluateActionSuccess(action))),
                    actions, i + 1)

\* this.weights before the loop and after each of its turns from i on
RECURSIVE LoopWeights(_, _, _)
LoopWeights(w, actions, i) ==
    IF i > Len(actions) THEN <<w>>
    ELSE LET action == actions[i]
             next == IF action.learningApplied THEN w
                     ELSE ApplyAdjustment(w, GetWeightKeyForBucket(action.actionType),
                                          StepFor(EvaluateActionSuccess(action)))
         IN  <<w>> \o LoopWeights(next, actions, i + 1)

\* runLearningCycle(completedActions).newWeights
CycleWeights(w, actions) == NormalizeWeights(ProcessActions(w, actions, 1))

----------------------------------------------------------------------------
(* federation/model-weights.ts                                             *)
(*                                                                         *)
(* A ModelWeights table holds one row object per bucket.  `{ ...TABLE }`   *)
(* copies the table but not its rows, so a table built that way holds the  *)
(* row objects of DEFAULT_MODEL_WEIGHTS themselves.  A row reference of    *)
(* the model is either shared (it is the default row object, whose cells   *)
(* are in defaultRows) or owns its cells.                                  *)

SharedRow == [shared |-> TRUE, cells |-> <<>>]

OwnRow(cells) == [shared |-> FALSE, cells |-> cells]

\* { ...DEFAULT_MODEL_WEIGHTS }
SpreadDefaults == [b \in ACTION_BUCKETS |-> SharedRow]

\* The cells a row reference of `table` points to, given the default rows.
RowOf(dflt, table, bucket) ==
    IF table[bucket].shared THEN dflt[bucket] ELSE table[bucket].cells

\* JSON.parse(JSON.stringify(table)): a table that owns copies of all rows.
DeepCopy(dflt, table) ==
    [b \in ACTION_BUCKETS |-> OwnRow(RowOf(dflt, table, b))]

\* A row maps the models that have an entry to their weights.
RowSum(row) == SumOver(row, DOMAIN row)

\* row[modelId] ?? 0
WeightOrZero(row, modelId) == IF modelId \in DOMAIN row THEN row[modelId] ELSE 0

\* getWeight(bucket, modelId): this.weights[bucket][modelId] ?? 0
GetWeight(dflt, table, bucket, modelId) ==
    WeightOrZero(RowOf(dflt, table, bucket), modelId)

\* normalizeBucket(bucket): each cell of the row divided by the row total
\* and rounded to four decimals on its own.
NormalizeBucket(row) ==
    LET total == RowSum(row)
    IN  IF total = 0 THEN row
        ELSE [m \in DOMAIN row |-> RoundDiv(row[m] * Unit, total)]

\* The cell adjustWeight writes before it renormalizes:
\* clamp((this.weights[bucket][modelId] ?? 0.25) + delta, minWeight, maxWeight)
AdjustedCell(row, modelId, delta, minW, maxW) ==
    LET current == IF modelId \in DOMAIN row THEN row[modelId] ELSE 2500
    IN  Clamp(current + delta, minW, maxW)

\* The row of `bucket` after adjustWeight(bucket, modelId, delta, minW, maxW).
AdjustedRow(row, modelId, delta, minW, maxW) ==
    NormalizeBucket(
        [m \in DOMAIN row \cup {modelId} |->
            IF m = modelId THEN AdjustedCell(row, modelId, delta, minW, maxW)
            ELSE row[m]])

\* adjustWeight writes the row object in place: the table after the call ...
AdjustTable(dflt, table, bucket, modelId, delta, minW, maxW) ==
    IF table[bucket].shared THEN table
    ELSE [table EXCEPT ![bucket] =
            OwnRow(AdjustedRow(table[bucket].cells, modelId, delta, minW, maxW))]

\* A manager whose adjustWeight wrote the cell of the model in every row
AdjustDefaultsEveryRow(dflt, table, bucket, modelId, delta, minW, maxW) ==
    [b \in ACTION_BUCKETS |->
        IF table[b].shared THEN AdjustedRow(dflt[b], modelId, delta, minW, maxW)
        ELSE dflt[b]]

\* ... and the default rows after it.
AdjustDefaults(dflt, table, bucket, modelId, delta, minW, maxW) ==
    IF table[bucket].shared
    THEN [dflt EXCEPT ![bucket] =
            AdjustedRow(dflt[bucket], modelId, delta, minW, maxW)]
    ELSE dflt

----------------------------------------------------------------------------
(* core/constants.ts: the CTR curve and the bucket criteria                *)

\* Math.round of a position given in tenths
RoundPosition(position) == RoundDiv(position, 10)

\* DEFAULT_CTR_CURVE, position1 .. position10
CtrCurve == <<3200, 2000, 1300, 900, 700, 500, 400, 300, 250, 200>>

CtrCurve11to20 == 100

CtrCurve21Plus == 50

\* getExpectedCTR(position, DEFAULT_CTR_CURVE)
GetExpectedCTR(position) ==
    LET pos == RoundPosition(position)
    IN  IF pos <= 0 THEN CtrCurve[1]
        ELSE IF pos <= 10 THEN CtrCurve[pos]
        ELSE IF pos <= 20 THEN CtrCurve11to20
        ELSE CtrCurve21Plus

\* BUCKET_CRITERIA (positions in tenths, ctrGapThreshold in percent)
CtrFixMinImpressions == 500

CtrGapThresholdPct == 5

StrikingMinPosition == 40

StrikingMaxPosition == 100

StrikingMinImpressions == 100

RebuildMinPosition == 110

RebuildMaxPosition == 500

RebuildMinImpressions == 50

MonitorMaxPosition == 30

\* The texts `${page.url} ${page.primaryKeyword}` the model draws pages from.
PlainText == "/blog/seo-tips seo tips"

NearMeText == "/plumber plumber near me"

CityText == "/roofing roofing pittsburgh"

PageTexts == {PlainText, NearMeText, CityText}

\* some keyword of LOCAL_INDICATORS.keywords is included in the text
IncludesLocalKeyword(text) == text = NearMeText

\* some pattern of LOCAL_INDICATORS.cityPatterns matches the text
MatchesCityPattern(text) == text = CityText

----------------------------------------------------------------------------
(* engine/scorer.ts: OpportunityScorer                                     *)

\* PageData
MkPage(impressions, ctr, position, conversions, freshnessScore, isLocalPage, intent, text, localKeywords) ==
    [impressions |-> impressions, ctr |-> ctr, position |-> position,
     conversions |-> conversions, freshnessScore |-> freshnessScore,
     isLocalPage |-> isLocalPage, intent |-> intent, text |-> text,
     localKeywords |-> localKeywords]

\* Math.log10(n) in units, for n a power of ten (the floor of it otherwise)
RECURSIVE Log10(_)
Log10(n) == IF n < 10 THEN 0 ELSE Unit + Log10(n \div 10)

NormalizeImpressions(impressions) ==
    Clamp(Log10(impressions + 1) \div 5, 0, Unit)

\* (50 - position) / 50 with the position in tenths
NormalizePosition(position) ==
    Clamp(((500 - position) * Unit) \div 500, 0, Unit)

\* The quotient is exact whenever it is not clamped to 0 or 1 for the pages
\* the model scores.
NormalizeCTRGap(position, actualCtr) ==
    LET expectedCtr == GetExpectedCTR(position)
    IN  IF expectedCtr <= 0 THEN 0
        ELSE Clamp(((expectedCtr - actualCtr) * Unit) \div expectedCtr, 0, Unit)

NormalizeConversions(conversions) ==
    Clamp(Log10(conversions + 1) \div 2, 0, Unit)

NormalizeFreshness(freshnessScore) == Clamp(freshnessScore, 0, Unit)

GetNormalizedScores(p) ==
    [impressions |-> NormalizeImpressions(p.impressions),
     position    |-> NormalizePosition(p.position),
     ctrGap      |-> NormalizeCTRGap(p.position, p.ctr),
     conversions |-> NormalizeConversions(p.conversions),
     freshness   |-> NormalizeFreshness(p.freshnessScore)]

\* calculateScore: Math.round(score * 10000) / 10000
CalculateScore(w, p) ==
    LET normalized == GetNormalizedScores(p)
    IN  RoundDiv(  w.impressions * normalized.impressions
                 + w.position    * normalized.position
                 + w.ctrGap      * normalized.ctrGap
                 + w.conversions * normalized.conversions
                 + w.freshness   * normalized.freshness, Unit)

----------------------------------------------------------------------------
(* engine/scorer.ts: ActionBucketer                                        *)

IsCTRFix(p) ==
    /\ p.impressions >= CtrFixMinImpressions
    /\ p.ctr * 100 < GetExpectedCTR(p.position) * (100 - CtrGapThresholdPct)

IsStrikingDistance(p) ==
    /\ p.position >= StrikingMinPosition
    /\ p.position <= StrikingMaxPosition
    /\ p.impressions >= StrikingMinImpressions

IsRelevanceRebuild(p) ==
    /\ p.position >= RebuildMinPosition
    /\ p.position <= RebuildMaxPosition
    /\ p.impressions >= RebuildMinImpressions

DetectLocalIntent(p) ==
    \/ IncludesLocalKeyword(p.text)
    \/ MatchesCityPattern(p.text)
    \/ p.localKeywords > 0

IsLocalBoost(p) ==
    IF ~p.isLocalPage /\ p.intent # "local" /\ ~DetectLocalIntent(p)
    THEN FALSE
    ELSE p.position > 30

IsMonitor(p) == p.position <= MonitorMaxPosition

\* classify with the CTR-gap rule tried before the top-rank protection
ClassifyGapFirst(p) ==
    IF IsCTRFix(p) THEN "CTR_FIX"
    ELSE IF IsMonitor(p) THEN "MONITOR"
    ELSE IF IsStrikingDistance(p) THEN "STRIKING_DISTANCE"
    ELSE IF IsLocalBoost(p) THEN "LOCAL_BOOST"
    ELSE IF IsRelevanceRebuild(p) THEN "RELEVANCE_REBUILD"
    ELSE "MONITOR"

Classify(p) ==
    IF IsMonitor(p) THEN "MONITOR"
    ELSE IF IsCTRFix(p) THEN "CTR_FIX"
    ELSE IF IsStrikingDistance(p) THEN "STRIKING_DISTANCE"
    ELSE IF IsLocalBoost(p) THEN "LOCAL_BOOST"
    ELSE IF IsRelevanceRebuild(p) THEN "RELEVANCE_REBUILD"
    ELSE "MONITOR"

----------------------------------------------------------------------------
(* Exact fractions.  The agreement score of the consensus engine is a      *)
(* quotient of small integers; it is kept as a reduced pair <<n, d>> and   *)
(* compared by cross-multiplication.  0 / 0 is NaN, the pair <<0, 0>>:     *)
(* every sum with NaN is NaN and every comparison with NaN is false.       *)

RECURSIVE GCD(_, _)
GCD(a, b) == IF b = 0 THEN a ELSE GCD(b, a % b)

NaN == <<0, 0>>

IsNaN(x) == x[2] = 0

\* n / d for 0 <= n <= d
Fraction(n, d) ==
    IF d = 0 THEN NaN ELSE LET g == GCD(n, d) IN <<n \div g, d \div g>>

FractionOne == <<1, 1>>

FractionZero == <<0, 1>>

FractionAdd(x, y) ==
    IF IsNaN(x) \/ IsNaN(y) THEN NaN
    ELSE Fraction(x[1] * y[2] + y[1] * x[2], x[2] * y[2])

\* x / k for an integer k > 0
FractionOver(x, k) == IF IsNaN(x) THEN NaN ELSE Fraction(x[1], x[2] * k)

FractionGeq(x, y) == ~IsNaN(x) /\ ~IsNaN(y) /\ x[1] * y[2] >= y[1] * x[2]

FractionGt(x, y) == ~IsNaN(x) /\ ~IsNaN(y) /\ x[1] * y[2] > y[1] * x[2]

----------------------------------------------------------------------------
(* Array helpers                                                           *)

Range(s) == {s[i] : i \in DOMAIN s}

\* [...new Set(s)]: the first occurrence of every element, in order
RECURSIVE Dedupe(_)
Dedupe(s) ==
    IF s = <<>> THEN <<>>
    ELSE LET front == Dedupe(SubSeq(s, 1, Len(s) - 1))
             last == s[Len(s)]
         IN  IF last \in Range(front) THEN front ELSE Append(front, last)

\* the concatenation of the arrays of an array of arrays
RECURSIVE Flatten(_)
Flatten(ss) == IF ss = <<>> THEN <<>> ELSE Head(ss) \o Flatten(Tail(ss))

\* s.slice(0, n)
Take(s, n) == SubSeq(s, 1, Min(n, Len(s)))

\* s.sort((a, b) => key[b] - key[a]): Array.prototype.sort is stable
RECURSIVE StableSortDesc(_, _)
StableSortDesc(s, key) ==
    IF Len(s) <= 1 THEN s
    ELSE LET rest == StableSortDesc(SubSeq(s, 1, Len(s) - 1), key)
             x == s[Len(s)]
             k == Cardinality({i \in DOMAIN rest : key[rest[i]] >= key[x]})
         IN  SubSeq(rest, 1, k) \o <<x>> \o SubSeq(rest, k + 1, Len(rest))

\* the number of indices of s that hold x
Occurrences(s, x) == Cardinality({i \in DOMAIN s : s[i] = x})

----------------------------------------------------------------------------
(* core/types.ts: ContentBrief                                             *)

\* The value of an absent optional text field, and of an absent confidence
Absent == "absent"

NoConfidence == <<-1, 1>>

\* Texts of the briefs and String.prototype.toLowerCase on them
ToLowerCase(t) ==
    CASE t = "FAQ" -> "faq"
      [] t = "Pricing" -> "pricing"
      [] t = "Add FAQ" -> "add faq"
      [] t = "Fix title" -> "fix title"
      [] OTHER -> t

\* t.toLowerCase().slice(0, 30): every task text of the model is shorter
TaskKey(t) == ToLowerCase(t)

\* A brief as provider `by` writes it: the single-valued texts are named
\* after their author.
MkBrief(by, bucket, targetWordCount, h2Additions, schemaStack, priorityTasks, titleRecommendations) ==
    [bucket |-> bucket,
     titleRecommendations |-> titleRecommendations,
     h1Recommendation |-> by,
     metaDescription |-> by,
     targetWordCount |-> targetWordCount,
     h2Additions |-> h2Additions,
     internalLinks |-> by,
     priorityTasks |-> priorityTasks,
     schemaStack |-> schemaStack,
     keywordDensityTarget |-> by,
     mandatoryPlacements |-> by,
     metricsSnapshot |-> by,
     status |-> "draft",
     generatedBy |-> by,
     contributingModels |-> <<>>,
     consensusConfidence |-> NoConfidence]

----------------------------------------------------------------------------
(* federation/consensus: ConsensusEngine                                   *)

\* DEFAULT_CONSENSUS_THRESHOLD = 0.7
ConsensusThreshold == <<7, 10>>

\* row[modelId] ?? 1
WeightOrOne(row, modelId) == IF modelId \in DOMAIN row THEN row[modelId] ELSE Unit

MkContribution(modelId, weight, brief) ==
    [modelId |-> modelId, weight |-> weight, brief |-> brief]

\* Word count similarity: 1 when the ratio is above 0.8, the ratio otherwise
WordCountAgreement(a, b) ==
    LET wcRatio == Fraction(Min(a.targetWordCount, b.targetWordCount),
                            Max(a.targetWordCount, b.targetWordCount))
    IN  IF FractionGt(wcRatio, <<4, 5>>) THEN FractionOne ELSE wcRatio

\* Jaccard similarity, 1 for two empty sets
Jaccard(A, B) ==
    IF A \cup B = {} THEN FractionOne
    ELSE Fraction(Cardinality(A \cap B), Cardinality(A \cup B))

\* dimensionAgreement / dimensions for one pair of briefs
PairAgreement(a, b) ==
    LET h2 == Jaccard({ToLowerCase(h) : h \in Range(a.h2Additions)},
                      {ToLowerCase(h) : h \in Range(b.h2Additions)})
        schema == Jaccard(Range(a.schemaStack), Range(b.schemaStack))
        tasks == Jaccard({TaskKey(t) : t \in Range(a.priorityTasks)},
                         {TaskKey(t) : t \in Range(b.priorityTasks)})
    IN  FractionOver(
            FractionAdd(FractionAdd(FractionAdd(WordCountAgreement(a, b), h2),
                                    schema), tasks), 4)

RECURSIVE SumPairs(_, _)
SumPairs(contributions, pairs) ==
    IF pairs = {} THEN FractionZero
    ELSE LET p == CHOOSE q \in pairs : TRUE
         IN  FractionAdd(PairAgreement(contributions[p[1]].brief,
                                       contributions[p[2]].brief),
                         SumPairs(contributions, pairs \ {p}))

CalculateConfidence(contributions) ==
    IF Len(contributions) <= 1 THEN FractionOne
    ELSE LET pairs == {p \in (DOMAIN contributions) \X (DOMAIN contributions) :
                          p[1] < p[2]}
         IN  FractionOver(SumPairs(contributions, pairs), Cardinality(pairs))

\* The [key, count] entries of h2Counts, in insertion order
H2Entries(sorted) ==
    LET all == Flatten([i \in DOMAIN sorted |->
                   [j \in DOMAIN sorted[i].brief.h2Additions |->
                       ToLowerCase(sorted[i].brief.h2Additions[j])]])
        keys == Dedupe(all)
    IN  [i \in DOMAIN keys |-> [key |-> keys[i], count |-> Occurrences(all, keys[i])]]

\* The original casing of a heading key: its first occurrence
OriginalCasing(sorted, key) ==
    LET all == Flatten([i \in DOMAIN sorted |-> sorted[i].brief.h2Additions])
        hits == {i \in DOMAIN all : ToLowerCase(all[i]) = key}
    IN  IF hits = {} THEN key
        ELSE all[CHOOSE i \in hits : \A j \in hits : i <= j]

\* Math.round(weightedWordCount / totalWeight), or the primary's word count
AverageWordCount(sorted, cells) ==
    LET w == [i \in DOMAIN sorted |-> WeightOrZero(cells, sorted[i].modelId)]
        totalWeight == SumOver(w, DOMAIN sorted)
        weightedWordCount ==
            SumOver([i \in DOMAIN sorted |-> sorted[i].brief.targetWordCount * w[i]],
                    DOMAIN sorted)
    IN  IF totalWeight > 0 THEN RoundDiv(weightedWordCount, totalWeight)
        ELSE sorted[1].brief.targetWordCount

\* mergeBriefs taking its single-valued fields from the contribution of the
\* lowest weight
MergeBriefsFromLast(contributions, cells, bucket) ==
    LET sorted == StableSortDesc(contributions,
                      [c \in Range(contributions) |-> WeightOrZero(cells, c.modelId)])
        primary == sorted[Len(sorted)].brief
        entries == H2Entries(sorted)
        byCount == StableSortDesc(entries, [e \in Range(entries) |-> e.count])
    IN  [bucket |-> bucket,
         titleRecommendations |->
             Take(Dedupe(Flatten([i \in DOMAIN sorted |->
                                     sorted[i].brief.titleRecommendations])), 3),
         h1Recommendation |-> primary.h1Recommendation,
         metaDescription |-> primary.metaDescription,
         targetWordCount |-> AverageWordCount(sorted, cells),
         h2Additions |-> [i \in DOMAIN byCount |-> OriginalCasing(sorted, byCount[i].key)],
         internalLinks |-> primary.internalLinks,
         priorityTasks |->
             Dedupe(Flatten([i \in DOMAIN sorted |-> sorted[i].brief.priorityTasks])),
         schemaStack |->
             Dedupe(Flatten([i \in DOMAIN sorted |-> sorted[i].brief.schemaStack])),
         keywordDensityTarget |-> primary.keywordDensityTarget,
         mandatoryPlacements |-> primary.mandatoryPlacements,
         metricsSnapshot |-> primary.metricsSnapshot,
         status |-> "draft",
         generatedBy |-> Absent,
         contributingModels |-> <<>>,
         consensusConfidence |-> NoConfidence]

\* mergeBriefs(contributions, bucketWeights, page, bucket)
MergeBriefs(contributions, cells, bucket) ==
    LET sorted == StableSortDesc(contributions,
                      [c \in Range(contributions) |-> WeightOrZero(cells, c.modelId)])
        primary == sorted[1].brief
        entries == H2Entries(sorted)
        byCount == StableSortDesc(entries, [e \in Range(entries) |-> e.count])
    IN  [bucket |-> bucket,
         titleRecommendations |->
             Take(Dedupe(Flatten([i \in DOMAIN sorted |->
                                     sorted[i].brief.titleRecommendations])), 3),
         h1Recommendation |-> primary.h1Recommendation,
         metaDescription |-> primary.metaDescription,
         targetWordCount |-> AverageWordCount(sorted, cells),
         h2Additions |-> [i \in DOMAIN byCount |-> OriginalCasing(sorted, byCount[i].key)],
         internalLinks |-> primary.internalLinks,
         priorityTasks |->
             Dedupe(Flatten([i \in DOMAIN sorted |-> sorted[i].brief.priorityTasks])),
         schemaStack |->
             Dedupe(Flatten([i \in DOMAIN sorted |-> sorted[i].brief.schemaStack])),
         keywordDensityTarget |-> primary.keywordDensityTarget,
         mandatoryPlacements |-> primary.mandatoryPlacements,
         metricsSnapshot |-> primary.metricsSnapshot,
         status |-> "draft",
         generatedBy |-> Absent,
         contributingModels |-> <<>>,
         consensusConfidence |-> NoConfidence]

\* Tag with federation metadata
TagBrief(brief, primaryModel, contributingModels, confidence) ==
    [brief EXCEPT !.generatedBy = primaryModel,
                  !.contributingModels = contributingModels,
                  !.consensusConfidence = confidence]

MkResult(brief, confidence, contributions, primaryModel, strategy) ==
    [brief |-> brief, confidence |-> confidence, contributions |-> contributions,
     primaryModel |-> primaryModel,
     modelOutputs |-> [m \in {contributions[i].modelId : i \in DOMAIN contributions} |->
                         LET i == CHOOSE j \in DOMAIN contributions :
                                     contributions[j].modelId = m
                         IN  contributions[i].brief],
     strategy |-> strategy]

\* The successful results, in the order of `adapters`
RECURSIVE Fulfilled(_, _, _, _)
Fulfilled(adapters, calls, briefs, cells) ==
    IF adapters = <<>> THEN <<>>
    ELSE LET n == Len(adapters)
             front == Fulfilled(SubSeq(adapters, 1, n - 1), SubSeq(calls, 1, n - 1),
                                SubSeq(briefs, 1, n - 1), cells)
         IN  IF calls[n] = "fulfilled"
             THEN Append(front, MkContribution(adapters[n],
                                    WeightOrZero(cells, adapters[n]), briefs[n]))
             ELSE front

\* The return of the adapters.length === 1 branch
SingleAdapterResult(modelId, brief, cells) ==
    MkResult(brief, FractionOne,
             <<MkContribution(modelId, WeightOrOne(cells, modelId), brief)>>,
             modelId, "single")

\* The only successful result of a fan-out, treated like an agreement of one
SurvivorAsPrimary(contributions) ==
    MkResult(contributions[1].brief, CalculateConfidence(contributions),
             contributions, contributions[1].modelId, "primary")

\* The return of the contributions.length === 1 branch
SurvivorResult(contributions) ==
    MkResult(contributions[1].brief, FractionOne, contributions,
             contributions[1].modelId, "single")

\* Two or more successful results, with the merge built whatever the
\* confidence is
AgreementMergedAnyway(contributions, cells, bucket, threshold) ==
    LET confidence == CalculateConfidence(contributions)
        sorted == StableSortDesc(contributions,
                      [c \in Range(contributions) |-> c.weight])
        primaryModel == sorted[1].modelId
        ids == [i \in DOMAIN sorted |-> sorted[i].modelId]
    IN  MkResult(TagBrief(MergeBriefs(sorted, cells, bucket), primaryModel, ids,
                          confidence),
                 confidence, sorted, primaryModel,
                 IF FractionGeq(confidence, threshold) THEN "consensus" ELSE "primary")

\* Two or more successful results.  The sort is in place, and with strategy
\* 'primary' the tagged brief is the primary's own brief object, which the
\* contributions and modelOutputs hold as well.
AgreementResult(contributions, cells, bucket, threshold) ==
    LET confidence == CalculateConfidence(contributions)
        sorted == StableSortDesc(contributions,
                      [c \in Range(contributions) |-> c.weight])
        primaryModel == sorted[1].modelId
        agreed == FractionGeq(confidence, threshold)
        ids == [i \in DOMAIN sorted |-> sorted[i].modelId]
        mergedBrief ==
            IF agreed THEN MergeBriefs(sorted, cells, bucket) ELSE sorted[1].brief
        tagged == TagBrief(mergedBrief, primaryModel, ids, confidence)
        held == IF agreed THEN sorted
                ELSE [i \in DOMAIN sorted |->
                        IF sorted[i].modelId = primaryModel
                        THEN [sorted[i] EXCEPT !.brief = tagged] ELSE sorted[i]]
    IN  MkResult(tagged, confidence, held, primaryModel,
                 IF agreed THEN "consensus" ELSE "primary")

----------------------------------------------------------------------------
(* Outcome records (SEOAction) the caller passes in                        *)

\* One outcome record of the given bucket.  "improved" meets the success
\* criterion of every bucket, "worse" misses it in every bucket.
MkAction(bucket, scenario, applied) ==
    [actionType          |-> bucket,
     learningApplied     |-> applied,
     originalCtr         |-> 100,
     originalPosition    |-> 80,
     originalImpressions |-> 100,
     originalClicks      |-> 10,
     resultCtr           |-> IF scenario = "improved" THEN 200 ELSE 50,
     resultPosition      |-> IF scenario = "improved" THEN 50 ELSE 100,
     resultImpressions   |-> IF scenario = "improved" THEN 200 ELSE 50,
     resultClicks        |-> IF scenario = "improved" THEN 20 ELSE 5]

Scenarios == {"improved", "worse"}

\* Sequences over S of length at most n.
SeqsUpTo(S, n) == UNION {[1..k -> S] : k \in 0..n}

\* The sequence of n copies of x.
Rep(x, n) == [i \in 1..n |-> x]

AllApplied(actions) == \A i \in 1..Len(actions) : actions[i].learningApplied

----------------------------------------------------------------------------
(* ConsensusEngine.generateConsensus as a process: the provider calls are  *)
(* issued, each settles on its own, and the code after the await runs once *)
(* all of them have settled.                                               *)

NoBrief == MkBrief(Absent, "none", 0, <<>>, <<>>, <<>>, <<>>)

NoResult == MkResult(NoBrief, NoConfidence, <<>>, Absent, "none")

IdleRound ==
    [status |-> "idle", adapters |-> <<>>, bucket |-> "none", row |-> SharedRow,
     calls |-> <<>>, briefs |-> <<>>, result |-> NoResult, error |-> "none"]

ConsensusStart == round = IdleRound

\* The cells of the row object `bucketWeights` refers to
BucketWeights(dflt, r) == IF r.row.shared THEN dflt[r.bucket] ELSE r.row.cells

\* A round that reads the default rows whatever table it was handed
DispatchedWithDefaults(adapters, bucketName, table) ==
    [status |-> "awaiting", adapters |-> adapters, bucket |-> bucketName,
     row |-> SharedRow,
     calls |-> [i \in DOMAIN adapters |-> "pending"],
     briefs |-> [i \in DOMAIN adapters |-> NoBrief],
     result |-> NoResult, error |-> "none"]

\* generateConsensus up to its await: bucketWeights = modelWeights[bucket],
\* then one generateBrief call per adapter
DispatchedRound(adapters, bucketName, table) ==
    [status |-> "awaiting", adapters |-> adapters, bucket |-> bucketName,
     row |-> table[bucketName],
     calls |-> [i \in DOMAIN adapters |-> "pending"],
     briefs |-> [i \in DOMAIN adapters |-> NoBrief],
     result |-> NoResult, error |-> "none"]

AllSettled(r) == \A i \in DOMAIN r.calls : r.calls[i] # "pending"

Returned(r, result) == [r EXCEPT !.status = "returned", !.result = result]

Threw(r, error) == [r EXCEPT !.status = "threw", !.error = error]

\* The code after the await if the results were collected as the calls
\* settle, not in the order of `adapters`
SettledInCompletionOrder(dflt, r) ==
    LET cells == BucketWeights(dflt, r)
        contributions ==
            Fulfilled([k \in DOMAIN completion |-> r.adapters[completion[k]]],
                      [k \in DOMAIN completion |-> r.calls[completion[k]]],
                      [k \in DOMAIN completion |-> r.briefs[completion[k]]], cells)
    IN  IF Len(r.adapters) = 1
        THEN IF r.calls[1] = "fulfilled"
             THEN Returned(r, SingleAdapterResult(r.adapters[1], r.briefs[1], cells))
             ELSE Threw(r, "provider error")
        ELSE IF Len(contributions) = 0
             THEN Threw(r, "All model adapters failed to generate briefs")
        ELSE IF Len(contributions) = 1
             THEN Returned(r, SurvivorResult(contributions))
        ELSE Returned(r, AgreementResult(contributions, cells, r.bucket,
                                         ConsensusThreshold))

\* The code after the await if the fan-out were Promise.all: one rejection
\* is the round's error
SettledAllOrNothing(dflt, r) ==
    LET cells == BucketWeights(dflt, r)
        contributions == Fulfilled(r.adapters, r.calls, r.briefs, cells)
    IN  IF Len(contributions) < Len(r.adapters) THEN Threw(r, "provider error")
        ELSE IF Len(contributions) = 0
             THEN Threw(r, "All model adapters failed to generate briefs")
        ELSE IF Len(r.adapters) = 1
             THEN Returned(r, SingleAdapterResult(r.adapters[1], r.briefs[1], cells))
        ELSE IF Len(contributions) = 1
             THEN Returned(r, SurvivorResult(contributions))
        ELSE Returned(r, AgreementResult(contributions, cells, r.bucket,
                                         ConsensusThreshold))

\* generateConsensus after its await
SettledRound(dflt, r) ==
    LET cells == BucketWeights(dflt, r)
        contributions == Fulfilled(r.adapters, r.calls, r.briefs, cells)
    IN  IF Len(r.adapters) = 1
        THEN IF r.calls[1] = "fulfilled"
             THEN Returned(r, SingleAdapterResult(r.adapters[1], r.briefs[1], cells))
             ELSE Threw(r, "provider error")
        ELSE IF Len(contributions) = 0
             THEN Threw(r, "All model adapters failed to generate briefs")
        ELSE IF Len(contributions) = 1
             THEN Returned(r, SurvivorResult(contributions))
        ELSE Returned(r, AgreementResult(contributions, cells, r.bucket,
                                         ConsensusThreshold))

\* adapter.generateBrief of call i resolves with `brief`
ProviderFulfils(i, brief) ==
    /\ round.status = "awaiting"
    /\ round.calls[i] = "pending"
    /\ round' = [round EXCEPT !.calls[i] = "fulfilled", !.briefs[i] = brief]

\* adapter.generateBrief of call i rejects
ProviderRejects(i) ==
    /\ round.status = "awaiting"
    /\ round.calls[i] = "pending"
    /\ round' = [round EXCEPT !.calls[i] = "rejected"]

----------------------------------------------------------------------------
(* learning/outcome-evaluator.ts: OutcomeEvaluator                         *)

EvaluationDelayDays == 14

MaxActionAgeDays == 60

IsReadyForEvaluation(action) ==
    /\ ~action.learningApplied
    /\ action.actionStatus = "completed"
    /\ action.daysSinceAction >= EvaluationDelayDays
    /\ action.daysSinceAction <= MaxActionAgeDays

\* Math.min(change / improvement, 1) in units, for the relative change
\* (cur - base) / base that the code replaces by 0 when base is not positive
RelativeScore(base, cur, pct) ==
    IF base > 0 THEN Min(((cur - base) * 100 * Unit) \div (pct * base), Unit) ELSE 0

\* evaluateSuccess(bucket, action, current): the verdict and the score
EvaluateSuccess(action, current) ==
    LET b == action.actionType
        improvement == CriteriaImprovement(b)
    IN  CASE b = "CTR_FIX" ->
               [success |-> RelativeDeltaMeets(action.originalCtr, current.ctr, improvement),
                score |-> RelativeScore(action.originalCtr, current.ctr, improvement)]
          [] b = "STRIKING_DISTANCE" ->
               [success |-> action.originalPosition - current.position >= improvement,
                score |-> Min(((action.originalPosition - current.position) * Unit)
                                \div improvement, Unit)]
          [] b = "RELEVANCE_REBUILD" ->
               [success |-> RelativeDeltaMeets(action.originalImpressions,
                                               current.impressions, improvement),
                score |-> RelativeScore(action.originalImpressions,
                                        current.impressions, improvement)]
          [] b = "LOCAL_BOOST" ->
               [success |-> RelativeDeltaMeets(action.originalClicks, current.clicks,
                                               improvement),
                score |-> RelativeScore(action.originalClicks, current.clicks,
                                        improvement)]
          [] b = "MONITOR" ->
               [success |-> current.position <= action.originalPosition,
                score |-> IF current.position <= action.originalPosition
                          THEN Unit ELSE 0]

\* currentPageDataMap.get(url): the map is filled in input order
HasPage(pages, url) == \E i \in DOMAIN pages : pages[i].url = url

PageFor(pages, url) ==
    pages[CHOOSE i \in DOMAIN pages :
              /\ pages[i].url = url
              /\ \A j \in DOMAIN pages : pages[j].url = url => j <= i]

\* batchEvaluate(actions, currentPageDataMap).evaluated, from action i on;
\* index is the place of the record in the caller's list
RECURSIVE Evaluated(_, _, _)
Evaluated(actions, pages, i) ==
    IF i > Len(actions) THEN <<>>
    ELSE LET action == actions[i]
             rest == Evaluated(actions, pages, i + 1)
         IN  IF IsReadyForEvaluation(action) /\ HasPage(pages, action.url)
             THEN LET verdict == EvaluateSuccess(action, PageFor(pages, action.url))
                  IN  <<[index |-> i, action |-> action, success |-> verdict.success,
                         successScore |-> verdict.score]>> \o rest
             ELSE rest

----------------------------------------------------------------------------
(* learning/model-adjuster.ts: ModelAdjuster                               *)

\* DEFAULT_MODEL_LEARNING_RATE = 0.02
ModelLearningRate == 200

\* A step in proportion to the score, without the floor of 0.5
ModelDeltaByScore(success, successScore) ==
    IF success THEN (ModelLearningRate * successScore) \div Unit
    ELSE -(ModelLearningRate \div 2)

\* learningRate * max(successScore, 0.5) on success, -learningRate * 0.5
ModelDelta(success, successScore) ==
    IF success THEN (ModelLearningRate * Max(successScore, Unit \div 2)) \div Unit
    ELSE -(ModelLearningRate \div 2)

\* { ...base, ...over }
MergeRow(base, over) ==
    [m \in (DOMAIN base) \cup (DOMAIN over) |->
        IF m \in DOMAIN over THEN over[m] ELSE base[m]]

\* new ModelWeightManager(given), and the modelWeights of resolveConfig:
\* `given` maps the buckets that were supplied to their cells
ConstructTable(dflt, given) ==
    [b \in ACTION_BUCKETS |->
        IF b \in DOMAIN given THEN OwnRow(MergeRow(dflt[b], given[b])) ELSE SharedRow]

\* The cells of all rows of a table
CellsOf(dflt, table) == [b \in ACTION_BUCKETS |-> RowOf(dflt, table, b)]

\* The loop of ModelAdjuster.runLearningCycle over evaluatedActions[i..]
RECURSIVE ProcessEvaluations(_, _, _, _)
ProcessEvaluations(dflt, table, evals, i) ==
    IF i > Len(evals) THEN table
    ELSE LET e == evals[i]
         IN  IF e.action.modelUsed = Absent
             THEN ProcessEvaluations(dflt, table, evals, i + 1)
             ELSE ProcessEvaluations(dflt,
                    AdjustTable(dflt, table, e.action.actionType, e.action.modelUsed,
                                ModelDelta(e.success, e.successScore),
                                ModelMinWeight, ModelMaxWeight),
                    evals, i + 1)

\* new ModelAdjuster(table).runLearningCycle(evals).newModelWeights
ModelCycleTable(dflt, table, evals) ==
    DeepCopy(dflt, ProcessEvaluations(dflt, ConstructTable(dflt, CellsOf(dflt, table)),
                                      evals, 1))

----------------------------------------------------------------------------
(* briefs/generator: BriefGenerator, engine/analyzer: SEOAnalyzer,         *)
(* federation/router: TaskRouter                                           *)

\* BriefGenerator.generate(page, bucket): the locally generated brief
Generate(p, bucketName) ==
    [MkBrief("local", bucketName, IF p.impressions > 5000 THEN 2700 ELSE 1300,
             <<"What is", "Why it matters">>, <<"Organization", "WebSite">>,
             <<bucketName>>, <<"Complete Guide">>)
       EXCEPT !.generatedBy = Absent]

\* resolved.maxTasksPerRun
MaxTasksPerRun == 50

\* analyzePages(pages) with includeMonitorBucket = false
AnalyzePages(w, pages) ==
    LET kept == SelectSeq(pages, LAMBDA p : Classify(p) # "MONITOR")
        tasks == [i \in DOMAIN kept |->
                    [url |-> kept[i].url, score |-> CalculateScore(w, kept[i]),
                     bucket |-> Classify(kept[i]), metrics |-> kept[i],
                     brief |-> Generate(kept[i], Classify(kept[i]))]]
    IN  Take(StableSortDesc(tasks, [t \in Range(tasks) |-> t.score]), MaxTasksPerRun)

\* route(bucket) for a non-empty list of available ids
Route(availableIds, dflt, table, bucketName) ==
    LET cells == RowOf(dflt, table, bucketName)
        entries == [i \in DOMAIN availableIds |->
                      [id |-> availableIds[i],
                       weight |-> WeightOrZero(cells, availableIds[i])]]
        sorted == StableSortDesc(entries, [e \in Range(entries) |-> e.weight])
    IN  [models |-> availableIds,
         primary |-> IF Len(availableIds) = 1 THEN availableIds[1] ELSE sorted[1].id,
         strategy |-> IF Len(availableIds) = 1 THEN "primary_only"
                      ELSE IF Len(availableIds) = 2 THEN "top2" ELSE "all"]

\* generateStats(trackingData) of a manager with the given table
GenerateStats(dflt, table, tracking) ==
    [m \in {tracking[i].modelId : i \in DOMAIN tracking} |->
        [totalTasks |-> Cardinality({i \in DOMAIN tracking : tracking[i].modelId = m}),
         weightsByBucket |->
            [b \in ACTION_BUCKETS |-> WeightOrZero(RowOf(dflt, table, b), m)]]]

\* No round on record
NoEarlier == [round |-> IdleRound, completion |-> <<>>]

RoundLogStart ==
    /\ completion = <<>>
    /\ earlier = NoEarlier
    /\ dispatchedRows = DEFAULT_MODEL_WEIGHTS

\* No route call made yet
NoRoute ==
    [outcome |-> "none", bucket |-> "none", models |-> <<>>, primary |-> Absent,
     strategy |-> "none"]

RouterStart == lastRoute = NoRoute

\* The page as observed now, with the fields the evaluator reads
MkObserved(ctr, position, impressions, clicks) ==
    [ctr |-> ctr, position |-> position, impressions |-> impressions,
     clicks |-> clicks]

\* Nothing judged yet
NoJudgement ==
    [action |-> MkAction("MONITOR", "worse", TRUE),
     current |-> MkObserved(0, 0, 0, 0),
     adjuster |-> "none", evaluator |-> "none", score |-> 0]

\* No content learning cycle on record
NoCycleLog == [ran |-> FALSE, actions |-> <<>>, steps |-> <<>>]

RecordStart ==
    /\ judged = NoJudgement
    /\ cycleLog = NoCycleLog

\* The engine before any cycle
NoCycleResult ==
    [plan |-> [activeWeights |-> DEFAULT_WEIGHTS, tasks |-> <<>>],
     evaluations |-> <<>>, weights |-> DEFAULT_WEIGHTS,
     modelWeights |-> SpreadDefaults, modelStats |-> <<>>]

IdleCycle ==
    [pc |-> "idle", tasks |-> <<>>, idx |-> 0, attempts |-> <<>>,
     activeWeights |-> DEFAULT_WEIGHTS, evaluations |-> <<>>,
     result |-> NoCycleResult]

\* An engine that was never created
EngineStart ==
    /\ registry = <<>>
    /\ resolved = [weights |-> DEFAULT_WEIGHTS, modelWeights |-> SpreadDefaults]
    /\ routerWeights = SpreadDefaults
    /\ statsWeights = SpreadDefaults
    /\ modelTracking = <<>>
    /\ completedActions = <<>>
    /\ cycle = IdleCycle
    /\ cyclesRun = 0
    /\ contentSteps = <<>>
    /\ modelSteps = <<>>

----------------------------------------------------------------------------
(* WeightAdjuster as a state machine                                       *)

PageStart ==
    /\ page = MkPage(0, 0, 10, 0, 0, FALSE, "informational", PlainText, 0)
    /\ pageBucket = "none"
    /\ pageScore = Undefined

ContentStart ==
    /\ weights = DEFAULT_WEIGHTS
    /\ learningCycles = 0
    /\ lastAllApplied = FALSE

\* No operation made on a manager yet
NoOp == [op |-> "none", manager |-> "none", delta |-> 0, evaluations |-> <<>>]

\* new ModelWeightManager(), twice: this.weights = { ...DEFAULT_MODEL_WEIGHTS }
StoreStart ==
    /\ defaultRows = DEFAULT_MODEL_WEIGHTS
    /\ modelWeights = SpreadDefaults
    /\ adjustCalls = 0
    /\ lastAdjust = [bucket |-> "none", modelId |-> "none"]
    /\ otherWeights = SpreadDefaults
    /\ lastOp = NoOp

InitContent == ContentStart /\ StoreStart /\ PageStart /\ ConsensusStart /\ EngineStart
    /\ RoundLogStart /\ RouterStart /\ RecordStart

\* runLearningCycle(completedActions)
RunLearningCycle(actions) ==
    /\ weights' = CycleWeights(weights, actions)
    /\ learningCycles' = learningCycles + 1
    /\ lastAllApplied' = AllApplied(actions)
    /\ UNCHANGED exceptContent

\* Bounds of SpecContent: short lists over two buckets, a few cycles.
MaxCycles == 3

MaxOutcomes == 3

ContentBuckets == {"CTR_FIX", "RELEVANCE_REBUILD"}

ContentPool ==
    {MkAction(b, s, a) : b \in ContentBuckets, s \in Scenarios, a \in BOOLEAN}

LearnShort ==
    /\ learningCycles < MaxCycles
    /\ \E actions \in SeqsUpTo(ContentPool, MaxOutcomes) :
          RunLearningCycle(actions)

NextContent == LearnShort

SpecContent == InitContent /\ [][NextContent]_vars

\* Bounds of SpecBatch: one call with a long list made of two runs.
BatchCycles == 1

BatchRun == 20

BatchPool == {MkAction(b, s, FALSE) : b \in ACTION_BUCKETS, s \in Scenarios}

LearnBatch ==
    /\ learningCycles < BatchCycles
    /\ \E a \in BatchPool, b \in BatchPool, n \in 0..BatchRun, m \in 0..BatchRun :
          RunLearningCycle(Rep(a, n) \o Rep(b, m))

NextBatch == LearnBatch

SpecBatch == InitContent /\ [][NextBatch]_vars

----------------------------------------------------------------------------
(* ModelWeightManager as a state machine                                   *)

InitStore == ContentStart /\ StoreStart /\ PageStart /\ ConsensusStart /\ EngineStart
    /\ RoundLogStart /\ RouterStart /\ RecordStart

\* weightManager.adjustWeight(bucket, modelId, delta, minW, maxW)
AdjustWeight(bucket, modelId, delta, minW, maxW) ==
    /\ modelWeights' =
          AdjustTable(defaultRows, modelWeights, bucket, modelId, delta, minW, maxW)
    /\ defaultRows' =
          AdjustDefaults(defaultRows, modelWeights, bucket, modelId, delta, minW, maxW)
    /\ adjustCalls' = adjustCalls + 1
    /\ lastAdjust' = [bucket |-> bucket, modelId |-> modelId]
    /\ otherWeights' = otherWeights
    /\ lastOp' = [NoOp EXCEPT !.op = "adjust", !.manager = "first", !.delta = delta]
    /\ UNCHANGED exceptStore

\* Bounds of SpecStore: a few calls, two buckets, four deltas.
MaxAdjusts == 3

StoreBuckets == {"CTR_FIX", "MONITOR"}

Deltas == {-5000, 200, 2000, 5000}

Adjust ==
    /\ adjustCalls < MaxAdjusts
    /\ \E b \in StoreBuckets, m \in MODEL_IDS, d \in Deltas :
          AdjustWeight(b, m, d, ModelMinWeight, ModelMaxWeight)

NextStore == Adjust

SpecStore == InitStore /\ [][NextStore]_vars

----------------------------------------------------------------------------
(* ActionBucketer and OpportunityScorer applied to one page                *)

BucketPositions == {10, 30, 31, 40, 100, 104, 110, 500, 510}

BucketImpressions == {49, 50, 100, 499, 500}

BucketCtrs == {0, 5000}

BucketPages ==
    {MkPage(i, c, p, 0, 0, l, n, t, k) :
        i \in BucketImpressions, c \in BucketCtrs, p \in BucketPositions,
        l \in BOOLEAN, n \in {"local", "informational"}, t \in PageTexts,
        k \in {0, 1}}

InitBucket ==
    /\ ContentStart
    /\ StoreStart
    /\ page \in BucketPages
    /\ pageBucket = "none"
    /\ pageScore = Undefined
    /\ ConsensusStart
    /\ EngineStart
    /\ RoundLogStart
    /\ RouterStart /\ RecordStart

\* bucketer.classify(page)
ClassifyPage ==
    /\ pageBucket' = Classify(page)
    /\ UNCHANGED <<page, pageScore>>
    /\ UNCHANGED exceptPage

NextBucket == ClassifyPage

SpecBucket == InitBucket /\ [][NextBucket]_vars

ScoreImpressions == {0, 99, 99999}

ScorePositions == {0, 250, 600}

ScoreCtrs == {0, 1600, 6400}

ScoreConversions == {0, 9, 99}

ScoreFreshness == {0, 5000, 10000, 15000}

ScorePages ==
    {MkPage(i, c, p, v, f, FALSE, "informational", PlainText, 0) :
        i \in ScoreImpressions, c \in ScoreCtrs, p \in ScorePositions,
        v \in ScoreConversions, f \in ScoreFreshness}

InitScore ==
    /\ ContentStart
    /\ StoreStart
    /\ page \in ScorePages
    /\ pageBucket = "none"
    /\ pageScore = Undefined
    /\ ConsensusStart
    /\ EngineStart
    /\ RoundLogStart
    /\ RouterStart /\ RecordStart

\* new OpportunityScorer(weights).calculateScore(page)
ScorePage ==
    /\ pageScore' = CalculateScore(weights, page)
    /\ UNCHANGED <<page, pageBucket>>
    /\ UNCHANGED exceptPage

ScoreCycles == 1

ScoreOutcomes == 2

\* A content learning cycle replaces the vector the scorer is built with.
LearnScore ==
    /\ learningCycles < ScoreCycles
    /\ \E actions \in SeqsUpTo(BatchPool, ScoreOutcomes) :
          RunLearningCycle(actions)

NextScore == LearnScore \/ ScorePage

SpecScore == InitScore /\ [][NextScore]_vars

----------------------------------------------------------------------------
(* ConsensusEngine driven by a caller                                      *)

WordCounts == {0, 600, 1200}

HeadingLists == {<<>>, <<"FAQ">>, <<"faq", "Pricing">>}

SchemaLists == {<<>>, <<"Article">>}

\* The briefs provider m may return
ProviderBriefs(m, bucketName) ==
    {MkBrief(m, bucketName, wc, h2, sc, <<"Add FAQ">>, <<"T1">>) :
        wc \in WordCounts, h2 \in HeadingLists, sc \in SchemaLists}

AdapterLists ==
    {<<>>, <<"claude">>, <<"grok">>, <<"claude", "openai">>,
     <<"claude", "openai", "gemini">>}

SkewedRow == [claude |-> 1000, openai |-> 4000, gemini |-> 2500, grok |-> 2500]

PartialRow == [claude |-> 5000, openai |-> 5000]

\* The tables a caller passes: the defaults, or a table of its own
CallerTables ==
    {SpreadDefaults} \cup
    {[b \in ACTION_BUCKETS |-> OwnRow(row)] : row \in {SkewedRow, PartialRow}}

InitConsensus == ContentStart /\ StoreStart /\ PageStart /\ ConsensusStart /\ EngineStart
    /\ RoundLogStart /\ RouterStart /\ RecordStart

StartRound ==
    /\ round.status = "idle"
    /\ \E adapters \in AdapterLists, table \in CallerTables :
          round' = DispatchedRound(adapters, "CTR_FIX", table)
    /\ UNCHANGED exceptConsensus

Fulfil ==
    /\ \E i \in DOMAIN round.calls :
          \E brief \in ProviderBriefs(round.adapters[i], round.bucket) :
              ProviderFulfils(i, brief)
    /\ UNCHANGED exceptConsensus

Reject ==
    /\ \E i \in DOMAIN round.calls : ProviderRejects(i)
    /\ UNCHANGED exceptConsensus

Settle ==
    /\ round.status = "awaiting"
    /\ AllSettled(round)
    /\ round' = SettledRound(defaultRows, round)
    /\ UNCHANGED exceptConsensus

NextConsensus == StartRound \/ Fulfil \/ Reject \/ Settle

SpecConsensus == InitConsensus /\ [][NextConsensus]_vars

----------------------------------------------------------------------------
(* Two ModelWeightManager instances of one process                         *)

InitManagers ==
    /\ ContentStart /\ StoreStart /\ PageStart /\ ConsensusStart /\ EngineStart
    /\ RoundLogStart /\ RouterStart /\ RecordStart

\* other.adjustWeight(bucket, modelId, delta, minW, maxW)
AdjustOtherWeight(bucket, modelId, delta, minW, maxW) ==
    /\ otherWeights' =
          AdjustTable(defaultRows, otherWeights, bucket, modelId, delta, minW, maxW)
    /\ defaultRows' =
          AdjustDefaults(defaultRows, otherWeights, bucket, modelId, delta, minW, maxW)
    /\ modelWeights' = modelWeights
    /\ adjustCalls' = adjustCalls + 1
    /\ lastAdjust' = [bucket |-> bucket, modelId |-> modelId]
    /\ lastOp' = [NoOp EXCEPT !.op = "adjust", !.manager = "second", !.delta = delta]
    /\ UNCHANGED exceptStore

\* Bounds of SpecManagers: the number of adjustWeight calls on both managers
MaxManagerAdjusts == 2

ManagerModels == {"claude", "gemini"}

ManagerDeltas == {-5000, 200}

\* The weights a caller passes to the constructor: none, or one saved row
ManagerGivens == {<<>>, "CTR_FIX" :> SkewedRow}

\* A table restored from saved state, whose CTR_FIX row has no entry for
\* gemini and grok
SavedTables == {[SpreadDefaults EXCEPT !["CTR_FIX"] = OwnRow(PartialRow)]}

AdjustFirst ==
    /\ adjustCalls < MaxManagerAdjusts
    /\ \E b \in StoreBuckets, m \in ManagerModels, d \in ManagerDeltas :
          AdjustWeight(b, m, d, ModelMinWeight, ModelMaxWeight)

AdjustOther ==
    /\ adjustCalls < MaxManagerAdjusts
    /\ \E b \in StoreBuckets, m \in ManagerModels, d \in ManagerDeltas :
          AdjustOtherWeight(b, m, d, ModelMinWeight, ModelMaxWeight)

\* other = new ModelWeightManager(given)
ConstructOther ==
    /\ \E given \in ManagerGivens :
          /\ otherWeights' = ConstructTable(defaultRows, given)
          /\ lastOp' = [NoOp EXCEPT !.op = IF DOMAIN given = {} THEN "construct"
                                           ELSE "constructWith",
                                    !.manager = "second"]
    /\ UNCHANGED <<defaultRows, modelWeights, adjustCalls, lastAdjust>>
    /\ UNCHANGED exceptStore

\* first.reset(): this.weights = { ...DEFAULT_MODEL_WEIGHTS }
ResetFirst ==
    /\ modelWeights' = SpreadDefaults
    /\ lastOp' = [NoOp EXCEPT !.op = "reset", !.manager = "first"]
    /\ UNCHANGED <<defaultRows, otherWeights, adjustCalls, lastAdjust>>
    /\ UNCHANGED exceptStore

\* other.setWeights(saved): this.weights = JSON.parse(JSON.stringify(saved))
SetWeightsOther ==
    /\ \E saved \in SavedTables :
          otherWeights' = DeepCopy(defaultRows, saved)
    /\ lastOp' = [NoOp EXCEPT !.op = "setWeights", !.manager = "second"]
    /\ UNCHANGED <<defaultRows, modelWeights, adjustCalls, lastAdjust>>
    /\ UNCHANGED exceptStore

NextManagers ==
    AdjustFirst \/ AdjustOther \/ ConstructOther \/ ResetFirst \/ SetWeightsOther

SpecManagers == InitManagers /\ [][NextManagers]_vars

----------------------------------------------------------------------------
(* ModelAdjuster as a state machine: its manager learns cycle by cycle     *)

\* The loop of runLearningCycle over evaluatedActions[i..] on a manager
\* whose rows may be the default rows: the table and the default rows after
RECURSIVE LearnInPlace(_, _, _, _)
LearnInPlace(dflt, table, evals, i) ==
    IF i > Len(evals) THEN [table |-> table, dflt |-> dflt]
    ELSE LET e == evals[i]
             delta == ModelDelta(e.success, e.successScore)
         IN  IF e.action.modelUsed = Absent
             THEN LearnInPlace(dflt, table, evals, i + 1)
             ELSE LearnInPlace(
                    AdjustDefaults(dflt, table, e.action.actionType, e.action.modelUsed,
                                   delta, ModelMinWeight, ModelMaxWeight),
                    AdjustTable(dflt, table, e.action.actionType, e.action.modelUsed,
                                delta, ModelMinWeight, ModelMaxWeight),
                    evals, i + 1)

\* The number of adjustWeight calls a list of evaluations leads to
AdjustCallsOf(evals) ==
    Cardinality({i \in DOMAIN evals : evals[i].action.modelUsed # Absent})

\* An evaluated outcome as runLearningCycle reads it
MkEvaluation(bucket, modelUsed, success, successScore) ==
    [action |-> [actionType |-> bucket, modelUsed |-> modelUsed],
     success |-> success, successScore |-> successScore]

\* Bounds of SpecModelAdjuster: the outcomes learned from, per cycle and
\* in all
MaxCycleOutcomes == 3

MaxLearnedOutcomes == 3

\* A saved row in which claude holds the minimum weight
FlooredRow == [claude |-> 500, openai |-> 3500, gemini |-> 3000, grok |-> 3000]

AdjusterGivens == {<<>>, "CTR_FIX" :> FlooredRow}

ModelEvaluationPool ==
    {MkEvaluation("CTR_FIX", "claude", TRUE, 2500),
     MkEvaluation("CTR_FIX", "claude", FALSE, 0),
     MkEvaluation("CTR_FIX", "openai", FALSE, 2500),
     MkEvaluation("CTR_FIX", "openai", TRUE, 7500),
     MkEvaluation("CTR_FIX", Absent, TRUE, Unit),
     MkEvaluation("MONITOR", "openai", TRUE, Unit)}

\* new ModelAdjuster(given)
InitModelAdjuster ==
    /\ ContentStart /\ PageStart /\ ConsensusStart /\ EngineStart
    /\ RoundLogStart /\ RouterStart /\ RecordStart
    /\ defaultRows = DEFAULT_MODEL_WEIGHTS
    /\ \E given \in AdjusterGivens :
          modelWeights = ConstructTable(DEFAULT_MODEL_WEIGHTS, given)
    /\ adjustCalls = 0
    /\ lastAdjust = [bucket |-> "none", modelId |-> "none"]
    /\ otherWeights = SpreadDefaults
    /\ lastOp = NoOp

\* modelAdjuster.runLearningCycle(evals)
ModelLearningCycle ==
    \E evals \in SeqsUpTo(ModelEvaluationPool, MaxCycleOutcomes) :
        /\ adjustCalls + AdjustCallsOf(evals) <= MaxLearnedOutcomes
        /\ LET after == LearnInPlace(defaultRows, modelWeights, evals, 1)
           IN  /\ modelWeights' = after.table
               /\ defaultRows' = after.dflt
        /\ adjustCalls' = adjustCalls + AdjustCallsOf(evals)
        /\ lastOp' = [NoOp EXCEPT !.op = "learn", !.manager = "first",
                                  !.evaluations = evals]
        /\ UNCHANGED <<lastAdjust, otherWeights>>
        /\ UNCHANGED exceptStore

NextModelAdjuster == ModelLearningCycle

SpecModelAdjuster == InitModelAdjuster /\ [][NextModelAdjuster]_vars

----------------------------------------------------------------------------
(* The two success evaluations applied to one outcome                      *)

Verdict(success) == IF success THEN "success" ELSE "failure"

\* The baselines and the observed values an outcome is judged with
JudgedBaselines == {0, 100}

JudgedResults == {Undefined, 0, 300}

JudgedObserved == {0, 300}

JudgedActions ==
    {[actionType |-> b, learningApplied |-> FALSE,
      originalCtr |-> base, originalPosition |-> 80,
      originalImpressions |-> base, originalClicks |-> base,
      resultCtr |-> res, resultPosition |-> pos,
      resultImpressions |-> res, resultClicks |-> res] :
        b \in ACTION_BUCKETS, base \in JudgedBaselines, res \in JudgedResults,
        pos \in {Undefined, 50}}

JudgedPages ==
    {MkObserved(cur, pos, cur, cur) : cur \in JudgedObserved, pos \in {50, 100}}

\* An outcome and the page it is about, before either evaluator saw them
InitVerdict ==
    /\ ContentStart /\ StoreStart /\ PageStart /\ ConsensusStart /\ EngineStart
    /\ RoundLogStart /\ RouterStart
    /\ cycleLog = NoCycleLog
    /\ \E a \in JudgedActions, p \in JudgedPages :
          judged = [NoJudgement EXCEPT !.action = a, !.current = p]

\* new WeightAdjuster().evaluateActionSuccess(judged.action)
JudgeByAdjuster ==
    /\ judged.adjuster = "none"
    /\ judged' = [judged EXCEPT
                    !.adjuster = Verdict(EvaluateActionSuccess(judged.action))]
    /\ UNCHANGED <<contentVars, storeVars, pageVars, consensusVars, engineVars,
                   roundLogVars, routerVars, cycleLog>>

\* new OutcomeEvaluator().evaluate(judged.action, judged.current)
JudgeByEvaluator ==
    /\ judged.evaluator = "none"
    /\ LET verdict == EvaluateSuccess(judged.action, judged.current)
       IN  judged' = [judged EXCEPT !.evaluator = Verdict(verdict.success),
                                    !.score = verdict.score]
    /\ UNCHANGED <<contentVars, storeVars, pageVars, consensusVars, engineVars,
                   roundLogVars, routerVars, cycleLog>>

NextVerdict == JudgeByAdjuster \/ JudgeByEvaluator

SpecVerdict == InitVerdict /\ [][NextVerdict]_vars

----------------------------------------------------------------------------
(* One learning cycle of a new WeightAdjuster, turn by turn                *)

\* Bound of SpecContentLog: the outcomes of the cycle
LogOutcomes == 3

\* Weights a caller restores: the defaults, or a vector with ctrGap near
\* the upper bound and impressions near the lower one
LogWeights ==
    {DEFAULT_WEIGHTS,
     [DEFAULT_WEIGHTS EXCEPT !["ctrGap"] = 4900, !["impressions"] = 550,
                             !["position"] = 550]}

LogPool ==
    {MkAction(b, sc, FALSE) : b \in ContentBuckets, sc \in Scenarios}
        \cup {MkAction("MONITOR", "worse", FALSE), MkAction("CTR_FIX", "improved", TRUE)}

\* new WeightAdjuster(restored)
InitContentLog ==
    /\ StoreStart /\ PageStart /\ ConsensusStart /\ EngineStart
    /\ RoundLogStart /\ RouterStart /\ RecordStart
    /\ weights \in LogWeights
    /\ learningCycles = 0
    /\ lastAllApplied = FALSE

\* runLearningCycle(actions), with the weights of every turn put on record
LoggedLearningCycle ==
    /\ learningCycles = 0
    /\ \E actions \in SeqsUpTo(LogPool, LogOutcomes) :
          /\ weights' = CycleWeights(weights, actions)
          /\ lastAllApplied' = AllApplied(actions)
          /\ cycleLog' = [ran |-> TRUE, actions |-> actions,
                          steps |-> LoopWeights(weights, actions, 1)]
    /\ learningCycles' = learningCycles + 1
    /\ UNCHANGED <<storeVars, pageVars, consensusVars, engineVars, roundLogVars,
                   routerVars, judged>>

NextContentLog == LoggedLearningCycle

SpecContentLog == InitContentLog /\ [][NextContentLog]_vars

----------------------------------------------------------------------------
(* createEngine: the engine and its runCycle                               *)

\* A page of the caller, with the fields PageData adds to the metrics
MkEnginePage(url, clicks, metrics) == [url |-> url, clicks |-> clicks] @@ metrics

\* The pages every cycle is run with: "/a" is a CTR_FIX opportunity, "/b" a
\* LOCAL_BOOST one, "/c" needs no action
EnginePages ==
    <<MkEnginePage("/b", 5,
         MkPage(9, 50, 120, 0, 0, TRUE, "local", NearMeText, 1)),
      MkEnginePage("/c", 900,
         MkPage(9999, 3200, 10, 9, 10000, FALSE, "informational", PlainText, 0)),
      MkEnginePage("/a", 35,
         MkPage(999, 350, 50, 0, 5000, FALSE, "informational", PlainText, 0))>>

\* An SEOAction as the caller holds it
MkOutcome(url, modelUsed, actionStatus, daysSinceAction, action) ==
    [url |-> url, modelUsed |-> modelUsed, actionStatus |-> actionStatus,
     daysSinceAction |-> daysSinceAction] @@ action

\* An outcome whose result fields were never filled in
Unmeasured(action) ==
    [action EXCEPT !.resultCtr = Undefined, !.resultPosition = Undefined,
                   !.resultImpressions = Undefined, !.resultClicks = Undefined]

\* The lists of completed actions a caller passes
EngineOutcomeLists ==
    {<<>>,
     <<MkOutcome("/a", "claude", "completed", 20, MkAction("CTR_FIX", "improved", FALSE))>>,
     <<MkOutcome("/b", "openai", "completed", 30, MkAction("LOCAL_BOOST", "worse", FALSE)),
       MkOutcome("/a", Absent, "completed", 20, MkAction("CTR_FIX", "improved", FALSE))>>,
     <<MkOutcome("/a", "claude", "completed", 20, MkAction("CTR_FIX", "improved", TRUE)),
       MkOutcome("/a", "openai", "completed", 7, MkAction("CTR_FIX", "worse", FALSE))>>,
     <<MkOutcome("/a", "claude", "completed", 20,
                 Unmeasured(MkAction("CTR_FIX", "improved", FALSE)))>>,
     <<MkOutcome("/gone", "claude", "completed", 20, MkAction("CTR_FIX", "improved", FALSE)),
       MkOutcome("/a", "claude", "pending", 20, MkAction("CTR_FIX", "improved", FALSE))>>}

\* ModelRegistry.fromConfig(config).getAvailableIds()
EngineRegistries == {<<>>, <<"claude">>, <<"claude", "openai">>}

\* config.modelWeights: absent, or saved rows for some buckets
EngineSavedRows == {<<>>, "CTR_FIX" :> PartialRow}

\* The brief provider m returns for an opportunity
EngineBrief(m, bucketName) ==
    MkBrief(m, bucketName, IF m = "claude" THEN 1200 ELSE 600,
            IF m = "claude" THEN <<"FAQ">> ELSE <<"faq", "Pricing">>,
            <<"Article">>, <<"Add FAQ">>, <<"T1">>)

\* createEngine(config), and the completed actions the caller will pass
InitEngine ==
    /\ ContentStart /\ StoreStart /\ PageStart /\ ConsensusStart
    /\ RoundLogStart /\ RouterStart /\ RecordStart
    /\ registry \in EngineRegistries
    /\ \E saved \in EngineSavedRows :
          /\ resolved = [weights |-> DEFAULT_WEIGHTS,
                         modelWeights |-> ConstructTable(DEFAULT_MODEL_WEIGHTS, saved)]
          /\ routerWeights = ConstructTable(DEFAULT_MODEL_WEIGHTS, saved)
          /\ statsWeights = ConstructTable(DEFAULT_MODEL_WEIGHTS, saved)
    /\ modelTracking = <<>>
    /\ completedActions \in EngineOutcomeLists
    /\ cycle = IdleCycle
    /\ cyclesRun = 0
    /\ contentSteps = [i \in DOMAIN completedActions |-> 0]
    /\ modelSteps = [i \in DOMAIN completedActions |-> 0]

\* The evaluations handed to the model adjuster
ModelEvaluations(evaluated) == SelectSeq(evaluated, LAMBDA e : e.action.modelUsed # Absent)

\* Step 1 of runCycle: the configuration after learning from `evaluated`
LearnedConfig(dflt, config, evaluated) ==
    LET actionsForLearning == [k \in DOMAIN evaluated |-> evaluated[k].action]
    IN  [weights |-> IF Len(actionsForLearning) > 0
                     THEN CycleWeights(config.weights, actionsForLearning)
                     ELSE config.weights,
         modelWeights |-> IF Len(ModelEvaluations(evaluated)) > 0
                          THEN ModelCycleTable(dflt, config.modelWeights,
                                               ModelEvaluations(evaluated))
                          ELSE config.modelWeights]

\* The places, in the caller's list, of the records a sequence of evaluations holds
IndicesOf(evaluated) == {evaluated[k].index : k \in DOMAIN evaluated}

\* The tagging of a task whose consensus returned
FederatedTask(task, result) ==
    [task EXCEPT !.brief =
        TagBrief(result.brief, result.primaryModel,
                 [k \in DOMAIN result.contributions |-> result.contributions[k].modelId],
                 result.confidence)]

\* The empty catch block: the task as the failure leaves it
ClearedTask(task) == [task EXCEPT !.brief = NoBrief]

CaughtTask(task) == task

\* The tracking entries pushed for a result
Tracked(result, bucketName) ==
    [k \in DOMAIN result.contributions |->
        [modelId |-> result.contributions[k].modelId, bucket |-> bucketName,
         success |-> TRUE, confidence |-> result.confidence]]

\* Step 4 of runCycle
BuildResult(c, config, dflt, table, tracking) ==
    [plan |-> [activeWeights |-> c.activeWeights, tasks |-> c.tasks],
     evaluations |-> c.evaluations, weights |-> config.weights,
     modelWeights |-> config.modelWeights,
     modelStats |-> GenerateStats(dflt, table, tracking)]

\* Bound of SpecEngine: the number of cycles run
MaxEngineCycles == 2

\* runCycle({pages, completedActions}) up to its first await, or to its
\* return when nothing is federated
RunCycle ==
    /\ cycle.pc \in {"idle", "done"}
    /\ cyclesRun < MaxEngineCycles
    /\ LET evaluated == Evaluated(completedActions, EnginePages, 1)
           learned == LearnedConfig(defaultRows, resolved, evaluated)
           routed == IF Len(ModelEvaluations(evaluated)) > 0
                     THEN learned.modelWeights ELSE routerWeights
           tasks == AnalyzePages(learned.weights, EnginePages)
           started == [pc |-> "federating", tasks |-> tasks, idx |-> 0,
                       attempts |-> [i \in DOMAIN tasks |-> "none"],
                       activeWeights |-> learned.weights,
                       evaluations |-> evaluated, result |-> NoCycleResult]
       IN  /\ resolved' = learned
           /\ routerWeights' = routed
           /\ contentSteps' = [i \in DOMAIN contentSteps |->
                                 IF i \in IndicesOf(evaluated)
                                 THEN contentSteps[i] + 1 ELSE contentSteps[i]]
           /\ modelSteps' = [i \in DOMAIN modelSteps |->
                               IF i \in IndicesOf(ModelEvaluations(evaluated))
                               THEN modelSteps[i] + 1 ELSE modelSteps[i]]
           /\ cyclesRun' = cyclesRun + 1
           /\ IF Len(registry) > 0 /\ Len(tasks) > 0
              THEN /\ cycle' = [started EXCEPT !.pc = "awaiting", !.idx = 1]
                   /\ round' = DispatchedRound(
                                  Route(registry, defaultRows, routed, tasks[1].bucket).models,
                                  tasks[1].bucket, learned.modelWeights)
              ELSE /\ cycle' = [started EXCEPT
                                  !.pc = "done",
                                  !.result = BuildResult(started, learned, defaultRows,
                                                         statsWeights, modelTracking)]
                   /\ round' = round
    /\ UNCHANGED <<registry, statsWeights, modelTracking, completedActions>>
    /\ UNCHANGED <<contentVars, storeVars, pageVars, roundLogVars, routerVars,
                   recordVars>>

\* runCycle from the return of generateConsensus for task idx to the next
\* await, or to its return
ResumeCycle ==
    /\ cycle.pc = "awaiting"
    /\ round.status = "awaiting"
    /\ AllSettled(round)
    /\ LET settled == SettledRound(defaultRows, round)
           i == cycle.idx
           ok == settled.status = "returned"
           task == IF ok THEN FederatedTask(cycle.tasks[i], settled.result)
                   ELSE CaughtTask(cycle.tasks[i])
           after == [cycle EXCEPT !.tasks[i] = task, !.attempts[i] = settled.status]
           tracking == IF ok THEN modelTracking \o Tracked(settled.result, task.bucket)
                       ELSE modelTracking
       IN  /\ modelTracking' = tracking
           /\ IF i < Len(cycle.tasks)
              THEN /\ cycle' = [after EXCEPT !.idx = i + 1]
                   /\ round' = DispatchedRound(
                                  Route(registry, defaultRows, routerWeights,
                                        cycle.tasks[i + 1].bucket).models,
                                  cycle.tasks[i + 1].bucket, resolved.modelWeights)
              ELSE /\ cycle' = [after EXCEPT
                                  !.pc = "done",
                                  !.result = BuildResult(after, resolved, defaultRows,
                                                         statsWeights, tracking)]
                   /\ round' = IdleRound
    /\ UNCHANGED <<registry, resolved, routerWeights, statsWeights, completedActions,
                   cyclesRun, contentSteps, modelSteps>>
    /\ UNCHANGED <<contentVars, storeVars, pageVars, roundLogVars, routerVars,
                   recordVars>>

\* A provider answers the engine's request
ProviderAnswers ==
    /\ cycle.pc = "awaiting"
    /\ \E i \in DOMAIN round.calls :
          ProviderFulfils(i, EngineBrief(round.adapters[i], round.bucket))
    /\ UNCHANGED exceptConsensus

\* A provider fails the engine's request
ProviderFails ==
    /\ cycle.pc = "awaiting"
    /\ \E i \in DOMAIN round.calls : ProviderRejects(i)
    /\ UNCHANGED exceptConsensus

NextEngine == RunCycle \/ ResumeCycle \/ ProviderAnswers \/ ProviderFails

SpecEngine == InitEngine /\ [][NextEngine]_vars

----------------------------------------------------------------------------
(* Rounds on record: a caller of generateConsensus, with the order in      *)
(* which the provider calls settle                                         *)

\* What a round on record leaves alone
exceptRoundLog ==
    <<contentVars, storeVars, pageVars, engineVars, routerVars, recordVars>>

\* The briefs provider m may return in a round on record
LoggedBriefs(m, bucketName) ==
    {EngineBrief(m, bucketName),
     MkBrief(m, bucketName, 0, <<>>, <<>>, <<"Add FAQ">>, <<"T1">>)}

LoggedAdapters == {<<"claude", "openai">>, <<"claude", "openai", "gemini">>}

LoggedTables == {SpreadDefaults, [b \in ACTION_BUCKETS |-> OwnRow(SkewedRow)]}

InitOrder ==
    /\ ContentStart /\ StoreStart /\ PageStart /\ ConsensusStart /\ EngineStart
    /\ RoundLogStart /\ RouterStart /\ RecordStart

\* generateConsensus(adapters, page, 'CTR_FIX', table) up to its await
DispatchRound ==
    /\ round.status = "idle"
    /\ \E adapters \in LoggedAdapters, table \in LoggedTables :
          round' = DispatchedRound(adapters, "CTR_FIX", table)
    /\ completion' = <<>>
    /\ dispatchedRows' = defaultRows
    /\ UNCHANGED <<earlier, exceptRoundLog>>

\* One provider call resolves
LoggedFulfil ==
    /\ \E i \in DOMAIN round.calls :
          /\ \E brief \in LoggedBriefs(round.adapters[i], round.bucket) :
                ProviderFulfils(i, brief)
          /\ completion' = Append(completion, i)
    /\ UNCHANGED <<earlier, dispatchedRows, exceptRoundLog>>

\* One provider call rejects
LoggedReject ==
    /\ \E i \in DOMAIN round.calls :
          /\ ProviderRejects(i)
          /\ completion' = Append(completion, i)
    /\ UNCHANGED <<earlier, dispatchedRows, exceptRoundLog>>

\* generateConsensus is called again with the same adapters, bucket and table
Redispatch ==
    /\ round.status \in {"returned", "threw"}
    /\ earlier = NoEarlier
    /\ earlier' = [round |-> round, completion |-> completion]
    /\ round' = [DispatchedRound(round.adapters, round.bucket, SpreadDefaults)
                   EXCEPT !.row = round.row]
    /\ completion' = <<>>
    /\ UNCHANGED <<dispatchedRows, exceptRoundLog>>

NextOrder == DispatchRound \/ LoggedFulfil \/ LoggedReject \/ Settle \/ Redispatch

SpecOrder == InitOrder /\ [][NextOrder]_vars

----------------------------------------------------------------------------
(* A ModelWeightManager at work while a round is in flight                 *)

InitInFlight ==
    /\ ContentStart /\ StoreStart /\ PageStart /\ ConsensusStart /\ EngineStart
    /\ RoundLogStart /\ RouterStart /\ RecordStart

\* Bound of SpecInFlight: the number of adjustWeight calls
MaxInFlightAdjusts == 1

InFlightModels == {"claude", "openai"}

InFlightDeltas == {-5000, 2000}

\* weightManager.adjustWeight(bucket, modelId, delta) at any moment
AdjustInFlight ==
    /\ adjustCalls < MaxInFlightAdjusts
    /\ \E b \in StoreBuckets, m \in InFlightModels, d \in InFlightDeltas :
          AdjustWeight(b, m, d, ModelMinWeight, ModelMaxWeight)

\* weightManager.setWeights(weightManager.getWeights()): the manager swaps
\* its table for a copy
SetWeights ==
    /\ \E b \in ACTION_BUCKETS : modelWeights[b].shared
    /\ modelWeights' = DeepCopy(defaultRows, DeepCopy(defaultRows, modelWeights))
    /\ UNCHANGED <<defaultRows, adjustCalls, lastAdjust, otherWeights, lastOp>>
    /\ UNCHANGED exceptStore

NextInFlight ==
    DispatchRound \/ LoggedFulfil \/ LoggedReject \/ Settle \/ AdjustInFlight
        \/ SetWeights

SpecInFlight == InitInFlight /\ [][NextInFlight]_vars

----------------------------------------------------------------------------
(* TaskRouter: route calls and weight-table swaps                          *)

\* route(bucket) as a call: it throws when no provider is available
RouteCall(availableIds, dflt, table, bucketName) ==
    IF Len(availableIds) = 0
    THEN [outcome |-> "threw", bucket |-> bucketName, models |-> <<>>,
          primary |-> Absent, strategy |-> "none"]
    ELSE LET decision == Route(availableIds, dflt, table, bucketName)
         IN  [outcome |-> "returned", bucket |-> bucketName,
              models |-> decision.models, primary |-> decision.primary,
              strategy |-> decision.strategy]

\* engine.federateBrief(page, bucket) up to its first await
FederateBriefCall(availableIds) ==
    IF Len(availableIds) = 0 THEN "threw" ELSE "dispatched"

\* A router that keeps the table it was constructed with
KeptTable(current, table) == current

\* setModelWeights(weights): the table the router holds afterwards
InstalledTable(current, table) == table

\* getAvailableIds() for every set of credentialed providers
RouterRegistries ==
    {SelectSeq(<<"claude", "openai", "gemini", "grok">>, LAMBDA m : m \in S) :
        S \in SUBSET MODEL_IDS}

\* The tables a learning step may produce
RouterTables == LoggedTables \cup {[b \in ACTION_BUCKETS |-> OwnRow(PartialRow)]}

\* new TaskRouter(registry, resolved.modelWeights)
InitRouter ==
    /\ ContentStart /\ StoreStart /\ PageStart /\ ConsensusStart
    /\ RoundLogStart /\ RouterStart /\ RecordStart
    /\ registry \in RouterRegistries
    /\ resolved = [weights |-> DEFAULT_WEIGHTS, modelWeights |-> SpreadDefaults]
    /\ routerWeights = SpreadDefaults
    /\ statsWeights = SpreadDefaults
    /\ modelTracking = <<>>
    /\ completedActions = <<>>
    /\ cycle = IdleCycle
    /\ cyclesRun = 0
    /\ contentSteps = <<>>
    /\ modelSteps = <<>>

\* router.route(bucket)
RouteBucket ==
    /\ \E b \in ACTION_BUCKETS :
          lastRoute' = RouteCall(registry, defaultRows, routerWeights, b)
    /\ UNCHANGED <<contentVars, storeVars, pageVars, consensusVars, engineVars,
                   roundLogVars, recordVars>>

\* resolved.modelWeights = table; router.setModelWeights(resolved.modelWeights)
SetModelWeights ==
    /\ \E table \in RouterTables :
          /\ resolved' = [resolved EXCEPT !.modelWeights = table]
          /\ routerWeights' = InstalledTable(routerWeights, table)
    /\ UNCHANGED <<registry, statsWeights, modelTracking, completedActions, cycle,
                   cyclesRun, contentSteps, modelSteps>>
    /\ UNCHANGED <<contentVars, storeVars, pageVars, consensusVars, roundLogVars,
                   routerVars, recordVars>>

NextRouter == RouteBucket \/ SetModelWeights

SpecRouter == InitRouter /\ [][NextRouter]_vars


----------------------------------------------------------------------------
(* Federation claims                                                       *)

FulfilledCalls(r) == {i \in DOMAIN r.calls : r.calls[i] = "fulfilled"}

\* C9: when a round has ended with exactly one provider's brief obtained
\* (one provider queried, or several queried and all but one failed),
\* generateConsensus returns strategy 'single', confidence 1, that provider
\* as primaryModel, one contribution, and that provider's brief.
C9_OneBriefIsSingle ==
    (round.status \in {"returned", "threw"} /\ Cardinality(FulfilledCalls(round)) = 1) =>
        LET i == CHOOSE j \in FulfilledCalls(round) : TRUE
        IN  /\ round.status = "returned"
            /\ round.result.strategy = "single"
            /\ round.result.confidence = FractionOne
            /\ round.result.primaryModel = round.adapters[i]
            /\ Len(round.result.contributions) = 1
            /\ round.result.contributions[1].modelId = round.adapters[i]
            /\ round.result.brief = round.briefs[i]

\* A fan-out to three providers has returned after two of them failed.
C9_LoneSurvivor ==
    /\ round.status = "returned"
    /\ Len(round.adapters) = 3
    /\ Cardinality(FulfilledCalls(round)) = 1
    /\ round.calls[1] = "rejected"

----------------------------------------------------------------------------
(* Classification and scoring claims                                       *)

\* C7: classify is total and returns the category of the first rule that
\* matches in the order top-rank, CTR-gap, near-threshold band, locality,
\* low-rank band, fallback; a page at or above the top-rank threshold is
\* MONITOR whatever its impressions, CTR gap or locality signals.
C7_FirstMatchingRule ==
    pageBucket # "none" =>
        LET matches == <<IsMonitor(page), IsCTRFix(page), IsStrikingDistance(page),
                         IsLocalBoost(page), IsRelevanceRebuild(page), TRUE>>
            gives == <<"MONITOR", "CTR_FIX", "STRIKING_DISTANCE",
                       "LOCAL_BOOST", "RELEVANCE_REBUILD", "MONITOR">>
        IN  /\ pageBucket \in ACTION_BUCKETS
            /\ \E i \in 1..6 :
                  /\ matches[i]
                  /\ \A j \in 1..(i - 1) : ~matches[j]
                  /\ pageBucket = gives[i]
            /\ page.position <= MonitorMaxPosition => pageBucket = "MONITOR"

\* A top-ranked page that also has the impressions and the CTR gap of the
\* CTR-gap rule and a locality flag has been classified.
C7_TopRankWithOtherSignals ==
    /\ pageBucket # "none"
    /\ page.position = MonitorMaxPosition
    /\ page.impressions >= CtrFixMinImpressions
    /\ page.ctr = 0
    /\ page.isLocalPage
    /\ page.intent = "local"

\* C8: for every page with non-negative metrics and every weight vector a
\* content learning cycle can return, calculateScore is within [0, 1].
C8_ScoreWithinUnitInterval ==
    pageScore # Undefined => 0 <= pageScore /\ pageScore <= Unit

----------------------------------------------------------------------------
(* Provider weight claims                                                  *)

\* C3: after any sequence of adjustWeight calls (min 0.05, max 0.60) from
\* the uniform table, the row of the adjusted category sums to 1.0 within
\* 1e-4.
C3_AdjustedRowSumsToOne ==
    adjustCalls > 0 =>
        Abs(RowSum(RowOf(defaultRows, modelWeights, lastAdjust.bucket)) - Unit) <= 1

\* C4: after any sequence of adjustWeight calls with bounds (minWeight,
\* maxWeight) from the uniform table, every cell of the table lies in
\* [minWeight, maxWeight].
C4_CellsWithinBounds ==
    \A b \in ACTION_BUCKETS :
        LET row == RowOf(defaultRows, modelWeights, b)
        IN  \A m \in DOMAIN row :
                ModelMinWeight <= row[m] /\ row[m] <= ModelMaxWeight

----------------------------------------------------------------------------
(* Content weight claims                                                   *)

WeightSum == SumOver(weights, WeightKeys)

\* C1: after any runLearningCycle call the five content weights sum to 1.0
\* within 1e-4.
C1_SumWithinTolerance ==
    learningCycles > 0 => Abs(WeightSum - Unit) <= 1

\* C2: after any runLearningCycle call every content weight lies in
\* [minWeight, maxWeight].
C2_WeightsWithinBounds ==
    learningCycles > 0 =>
        \A k \in WeightKeys : MinWeight <= weights[k] /\ weights[k] <= MaxWeight

\* C5: a runLearningCycle call in which every outcome is already flagged
\* learningApplied leaves the content weight vector exactly as it was.
C5_AllAppliedIsNoOp ==
    [][(learningCycles' = learningCycles + 1 /\ lastAllApplied')
          => weights' = weights]_vars

----------------------------------------------------------------------------
(* Successive cycles and failed rounds of the engine                       *)

\* C10: when every provider queried for one opportunity fails, runCycle does
\* not fail: that task keeps its locally generated brief and its place in the
\* plan, and every later task of the batch still gets its own round.
C10_FailureStaysWithItsTask ==
    \A i \in DOMAIN cycle.attempts :
        cycle.attempts[i] = "threw" =>
            /\ cycle.pc \in {"awaiting", "done"}
            /\ cycle.tasks[i].brief = Generate(cycle.tasks[i].metrics, cycle.tasks[i].bucket)
            /\ cycle.pc = "awaiting" => cycle.idx > i
            /\ cycle.pc = "done" =>
                  /\ cycle.result.plan.tasks = cycle.tasks
                  /\ Len(cycle.result.plan.tasks) = Len(AnalyzePages(cycle.activeWeights, EnginePages))
                  /\ \A j \in DOMAIN cycle.attempts :
                        j > i => cycle.attempts[j] \in {"returned", "threw"}

\* A cycle is over whose first round failed at both providers and whose
\* second round gave a federated brief
C10_LaterTaskFederated ==
    /\ cycle.pc = "done"
    /\ Len(registry) = 2
    /\ Len(cycle.tasks) = 2
    /\ cycle.attempts[1] = "threw"
    /\ cycle.attempts[2] = "returned"
    /\ cycle.result.plan.tasks[1].brief.generatedBy = Absent
    /\ cycle.result.plan.tasks[2].brief.generatedBy \in MODEL_IDS

\* C6: over successive cycles run with the same outcome records, each record
\* contributes a step to the content weights at most once and a step to the
\* provider weights at most once.
C6_EachOutcomeStepsOnce ==
    \A i \in DOMAIN completedActions :
        /\ contentSteps[i] <= 1
        /\ modelSteps[i] <= 1

----------------------------------------------------------------------------
(* Fan-out rounds of two or more providers                                 *)

\* A brief without the federation metadata
Untagged(brief) == TagBrief(brief, Absent, <<>>, NoConfidence)

\* C11: in a round of two or more providers every provider has a call, the
\* outcome exists only when all calls have settled, the round fails only
\* when no call succeeded, and the contributions are exactly the providers
\* whose call succeeded, each with the brief it returned.
C11_ContributionsAreTheSuccesses ==
    (round.status # "idle" /\ Len(round.adapters) >= 2) =>
        /\ DOMAIN round.calls = DOMAIN round.adapters
        /\ round.status \in {"returned", "threw"} => AllSettled(round)
        /\ round.status = "threw" => FulfilledCalls(round) = {}
        /\ round.status = "returned" =>
              LET cs == round.result.contributions
              IN  /\ FulfilledCalls(round) # {}
                  /\ Len(cs) = Cardinality(FulfilledCalls(round))
                  /\ \A k \in DOMAIN cs :
                        \E i \in FulfilledCalls(round) : cs[k].modelId = round.adapters[i]
                  /\ \A i \in FulfilledCalls(round) :
                        \E k \in DOMAIN cs :
                            /\ cs[k].modelId = round.adapters[i]
                            /\ Untagged(cs[k].brief) = Untagged(round.briefs[i])
                            /\ Untagged(round.result.modelOutputs[round.adapters[i]])
                                 = Untagged(round.briefs[i])

\* A round of three providers returned although one of them failed
C11_OneFailureAmongThree ==
    /\ round.status = "returned"
    /\ Len(round.adapters) = 3
    /\ Cardinality(FulfilledCalls(round)) = 2
    /\ Len(round.result.contributions) = 2

\* C12: with two or more successes the strategy is 'consensus' exactly when
\* the confidence computed from the successful briefs is at least the
\* threshold, and 'primary' otherwise; under 'consensus' the artifact is the
\* merge, under 'primary' it is the primary provider's brief.
C12_StrategyMatchesArtifact ==
    (round.status = "returned" /\ Cardinality(FulfilledCalls(round)) >= 2) =>
        LET res == round.result
            cells == BucketWeights(defaultRows, round)
            agreed == FractionGeq(res.confidence, ConsensusThreshold)
        IN  /\ res.confidence =
                 CalculateConfidence(Fulfilled(round.adapters, round.calls,
                                               round.briefs, cells))
            /\ res.strategy = IF agreed THEN "consensus" ELSE "primary"
            /\ res.strategy = "consensus" =>
                  Untagged(res.brief) = MergeBriefs(res.contributions, cells, round.bucket)
            /\ res.strategy = "primary" =>
                  res.brief = res.modelOutputs[res.primaryModel]

\* A round returned its primary's brief because the providers disagreed, and
\* the merge would have been another brief
C12_DisagreementKeepsPrimary ==
    /\ round.status = "returned"
    /\ Cardinality(FulfilledCalls(round)) >= 2
    /\ round.result.strategy = "primary"
    /\ FractionGt(ConsensusThreshold, round.result.confidence)
    /\ Untagged(round.result.brief) #
          MergeBriefs(round.result.contributions, BucketWeights(defaultRows, round),
                      round.bucket)

\* The call of the round that provider m answered
CallOf(r, m) == CHOOSE i \in DOMAIN r.adapters : r.adapters[i] = m

\* C13: with two or more successes and a confidence below the threshold the
\* returned artifact is the primary provider's brief as that provider
\* returned it, field by field, and the briefs held in contributions and in
\* modelOutputs are as the providers returned them.
C13_PrimaryArtifactUnmodified ==
    (/\ round.status = "returned"
     /\ Cardinality(FulfilledCalls(round)) >= 2
     /\ round.result.strategy = "primary") =>
        LET res == round.result
        IN  /\ res.brief = round.briefs[CallOf(round, res.primaryModel)]
            /\ \A k \in DOMAIN res.contributions :
                  res.contributions[k].brief =
                      round.briefs[CallOf(round, res.contributions[k].modelId)]
            /\ \A m \in DOMAIN res.modelOutputs :
                  res.modelOutputs[m] = round.briefs[CallOf(round, m)]

\* C14: for two or more successful contributions the consensus confidence
\* is a defined number between 0 and 1.
C14_ConfidenceIsDefined ==
    (round.status = "returned" /\ Cardinality(FulfilledCalls(round)) >= 2) =>
        /\ ~IsNaN(round.result.confidence)
        /\ FractionGeq(round.result.confidence, FractionZero)
        /\ FractionGeq(FractionOne, round.result.confidence)

\* The successful contributions of a round in the order the providers were
\* queried
InQueryOrder(r) ==
    Fulfilled(r.adapters, r.calls, r.briefs, BucketWeights(defaultRows, r))

\* C16: the merged heading list holds each distinct heading (compared without
\* case) once, by non-increasing number of occurrences, ties by which heading
\* is seen first when the successful providers are scanned in the order they
\* were queried, each in the casing of its first occurrence in that scan.
C16_HeadingsByQueryOrder ==
    (round.status = "returned" /\ round.result.strategy = "consensus") =>
        LET asked == InQueryOrder(round)
            entries == H2Entries(asked)
            byCount == StableSortDesc(entries, [e \in Range(entries) |-> e.count])
        IN  round.result.brief.h2Additions =
                [i \in DOMAIN byCount |-> OriginalCasing(asked, byCount[i].key)]

\* C17: with two or more successes the primary provider is one of the
\* providers that succeeded and no provider that succeeded has a higher
\* weight in the category's row; under 'consensus' the single-valued fields
\* of the artifact are those of that provider's brief.
C17_PrimaryHoldsMaximalWeight ==
    (round.status = "returned" /\ Cardinality(FulfilledCalls(round)) >= 2) =>
        LET res == round.result
            cells == BucketWeights(defaultRows, round)
            succeeded == {round.adapters[i] : i \in FulfilledCalls(round)}
            own == round.briefs[CallOf(round, res.primaryModel)]
        IN  /\ res.primaryModel \in succeeded
            /\ \A m \in succeeded :
                  WeightOrZero(cells, res.primaryModel) >= WeightOrZero(cells, m)
            /\ res.strategy = "consensus" =>
                  /\ res.brief.h1Recommendation = own.h1Recommendation
                  /\ res.brief.metaDescription = own.metaDescription
                  /\ res.brief.keywordDensityTarget = own.keywordDensityTarget
                  /\ res.brief.mandatoryPlacements = own.mandatoryPlacements
                  /\ res.brief.generatedBy = res.primaryModel

\* A consensus whose primary is not the provider queried first: the weights
\* put a later provider ahead
C17_LaterProviderIsPrimary ==
    /\ round.status = "returned"
    /\ Cardinality(FulfilledCalls(round)) >= 2
    /\ round.result.strategy = "consensus"
    /\ round.result.primaryModel # round.adapters[1]
    /\ round.result.brief.h1Recommendation = round.result.primaryModel

----------------------------------------------------------------------------
(* Rounds run twice, and rounds with the weights changed in flight         *)

WeightsOf(result) ==
    [k \in DOMAIN result.contributions |->
        [modelId |-> result.contributions[k].modelId,
         weight |-> result.contributions[k].weight]]

\* C18: a fan-out round uses the weights as they were when it was
\* dispatched: whatever is done to the weights while its calls are in
\* flight, its contribution weights, its primary provider and its target
\* length are those the weights of the dispatch give.
C18_RoundUsesDispatchWeights ==
    (round.status = "returned" /\ Len(round.adapters) >= 2) =>
        LET asDispatched ==
                SettledRound(dispatchedRows,
                             [round EXCEPT !.status = "awaiting",
                                           !.result = NoResult]).result
        IN  /\ WeightsOf(round.result) = WeightsOf(asDispatched)
            /\ round.result.primaryModel = asDispatched.primaryModel
            /\ round.result.brief.targetWordCount = asDispatched.brief.targetWordCount

----------------------------------------------------------------------------
(* Routing                                                                 *)

\* C19: with no credentialed provider federation is a fatal error: route
\* throws for every category, federateBrief rejects, and runCycle does not
\* complete normally with a plan.
C19_NoProviderIsFatal ==
    Len(registry) = 0 =>
        /\ \A b \in ACTION_BUCKETS :
              RouteCall(registry, defaultRows, routerWeights, b).outcome = "threw"
        /\ FederateBriefCall(registry) = "threw"
        /\ cycle.pc # "done"

\* C20: a route call that returns names as primary an available provider
\* whose weight in the category's row of the table most recently installed
\* is maximal among the available providers.
C20_PrimaryIsMaximalInInstalledTable ==
    [][(lastRoute' # lastRoute /\ lastRoute'.outcome = "returned") =>
          LET cells == RowOf(defaultRows, resolved.modelWeights, lastRoute'.bucket)
          IN  /\ lastRoute'.primary \in Range(registry)
              /\ lastRoute'.models = registry
              /\ \A m \in Range(registry) :
                    WeightOrZero(cells, lastRoute'.primary) >= WeightOrZero(cells, m)]_vars

\* After a swap to a table that puts a later provider ahead, a route call
\* named that provider
C20_RouteAfterSwap ==
    /\ lastRoute.outcome = "returned"
    /\ Len(registry) >= 3
    /\ routerWeights # SpreadDefaults
    /\ lastRoute.primary # registry[1]
    /\ lastRoute.primary =
          Route(registry, defaultRows, resolved.modelWeights, lastRoute.bucket).primary

----------------------------------------------------------------------------
(* Provider weight store: frame, defaults and ownership                    *)

\* C21: adjustWeight(category, provider, ...) changes only the row of the
\* given category: every cell of every other category's row of the manager
\* has the same value after the call as before it.
C21_OtherRowsUntouched ==
    [][\A b \in ACTION_BUCKETS :
          (adjustCalls' = adjustCalls + 1 /\ b # lastAdjust'.bucket) =>
              RowOf(defaultRows', modelWeights', b)
                  = RowOf(defaultRows, modelWeights, b)]_vars

\* An adjustWeight call on one row made after another row had already
\* been moved away from its initial cells
C21_SecondRowAdjusted ==
    /\ adjustCalls >= 2
    /\ lastAdjust.bucket = "MONITOR"
    /\ RowOf(defaultRows, modelWeights, "CTR_FIX") # DEFAULT_MODEL_WEIGHTS["CTR_FIX"]
    /\ RowOf(defaultRows, modelWeights, "MONITOR") # DEFAULT_MODEL_WEIGHTS["MONITOR"]

\* C27: provider weights are owned per manager and never shared through a
\* global: a manager constructed with no weights, and a manager after
\* reset(), has every cell equal to 1/4 whatever adjustWeight calls were
\* made before on any manager, and adjusting one manager never changes the
\* weights read from the other.
C27_StoresOwnTheirWeights ==
    [][/\ (lastOp'.op = "construct") =>
              \A b \in ACTION_BUCKETS, m \in MODEL_IDS :
                  GetWeight(defaultRows', otherWeights', b, m)
                      = Unit \div Cardinality(MODEL_IDS)
       /\ (lastOp'.op = "reset") =>
              \A b \in ACTION_BUCKETS, m \in MODEL_IDS :
                  GetWeight(defaultRows', modelWeights', b, m)
                      = Unit \div Cardinality(MODEL_IDS)
       /\ (lastOp'.op = "adjust" /\ lastOp'.manager = "first") =>
              CellsOf(defaultRows', otherWeights') = CellsOf(defaultRows, otherWeights)
       /\ (lastOp'.op = "adjust" /\ lastOp'.manager = "second") =>
              CellsOf(defaultRows', modelWeights') = CellsOf(defaultRows, modelWeights)
      ]_vars

\* The row adjustWeight would leave if it started a missing entry from 0
RowAdjustedFromZero(row, modelId, delta) ==
    NormalizeBucket(
        [m \in DOMAIN row \cup {modelId} |->
            IF m = modelId THEN Clamp(WeightOrZero(row, modelId) + delta,
                                      ModelMinWeight, ModelMaxWeight)
            ELSE row[m]])

\* C25: wherever a provider has no entry in a category's row, the weight is
\* treated as 0 and nothing is raised, in every place the weight is read:
\* getWeight, the starting value of adjustWeight, the router's ranking, and
\* the consensus engine's contribution weight (one provider, and fan-out).
C25_MissingWeightIsZeroEverywhere ==
    [][/\ \A b \in ACTION_BUCKETS, m \in MODEL_IDS :
            LET row == RowOf(defaultRows', otherWeights', b)
                brief == EngineBrief(m, b)
            IN  m \notin DOMAIN row =>
                  /\ GetWeight(defaultRows', otherWeights', b, m) = 0
                  /\ \A n \in DOMAIN row :
                        row[n] > 0 =>
                          /\ Route(<<m, n>>, defaultRows', otherWeights', b).primary = n
                          /\ Fulfilled(<<m, n>>, <<"fulfilled", "fulfilled">>,
                                       <<brief, brief>>, row)[1].weight = 0
                  /\ SingleAdapterResult(m, brief, row).contributions[1].weight = 0
       /\ (/\ lastOp'.op = "adjust" /\ lastOp'.manager = "second"
           /\ lastAdjust'.modelId
                 \notin DOMAIN RowOf(defaultRows, otherWeights, lastAdjust'.bucket))
          => RowOf(defaultRows', otherWeights', lastAdjust'.bucket)
               = RowAdjustedFromZero(RowOf(defaultRows, otherWeights, lastAdjust'.bucket),
                                     lastAdjust'.modelId, lastOp'.delta)
      ]_vars

----------------------------------------------------------------------------
(* Provider learning claims                                                *)

\* The cells after one adjustWeight per outcome with a provider, in input
\* order, with the step the learning rule names
RECURSIVE SteppedCells(_, _, _)
SteppedCells(cells, evals, i) ==
    IF i > Len(evals) THEN cells
    ELSE LET e == evals[i]
             b == e.action.actionType
             step == IF e.success
                     THEN (ModelLearningRate * Max(e.successScore, Unit \div 2)) \div Unit
                     ELSE -(ModelLearningRate \div 2)
         IN  IF e.action.modelUsed = Absent THEN SteppedCells(cells, evals, i + 1)
             ELSE SteppedCells(
                    [cells EXCEPT ![b] = AdjustedRow(cells[b], e.action.modelUsed, step,
                                                     ModelMinWeight, ModelMaxWeight)],
                    evals, i + 1)

C26_FloorHeldUntilOwnSuccess ==
    [][(lastOp'.op = "learn") =>
          \A b \in ACTION_BUCKETS :
              LET old == RowOf(defaultRows, modelWeights, b)
                  new == RowOf(defaultRows', modelWeights', b)
              IN  \A m \in DOMAIN old :
                      (old[m] = ModelMinWeight /\ new[m] > ModelMinWeight) =>
                          \E i \in DOMAIN lastOp'.evaluations :
                              /\ lastOp'.evaluations[i].action.modelUsed = m
                              /\ lastOp'.evaluations[i].action.actionType = b
                              /\ lastOp'.evaluations[i].success]_vars

----------------------------------------------------------------------------
(* Success evaluation claims                                               *)

\* The baseline of the metric the category is judged by
BaselineOf(action) ==
    CASE action.actionType = "CTR_FIX"           -> action.originalCtr
      [] action.actionType = "RELEVANCE_REBUILD" -> action.originalImpressions
      [] action.actionType = "LOCAL_BOOST"       -> action.originalClicks
      [] OTHER                                   -> action.originalPosition

\* C22: for an outcome whose baseline impressions (likewise CTR, clicks) is
\* 0, the success evaluation uses a relative delta of 0 whatever the
\* observed value is, so both evaluations judge it a failure in the
\* categories with a positive threshold on that metric, with score 0.
C22_ZeroBaselineIsFailure ==
    (/\ judged.action.actionType \in {"CTR_FIX", "RELEVANCE_REBUILD", "LOCAL_BOOST"}
     /\ BaselineOf(judged.action) = 0)
    => /\ judged.adjuster \in {"none", "failure"}
       /\ judged.evaluator \in {"none", "failure"}
       /\ judged.score = 0

\* An outcome with no impressions at the baseline and many now, judged by
\* both evaluations
C22_GrowthFromZeroJudged ==
    /\ judged.action.actionType = "RELEVANCE_REBUILD"
    /\ judged.action.originalImpressions = 0
    /\ judged.action.resultImpressions > 0
    /\ judged.current.impressions > 0
    /\ judged.adjuster = "failure"
    /\ judged.evaluator = "failure"

\* The weight dimension a category teaches
DimensionOf(bucket) ==
    CASE bucket = "CTR_FIX"           -> "ctrGap"
      [] bucket = "STRIKING_DISTANCE" -> "position"
      [] bucket = "RELEVANCE_REBUILD" -> "impressions"
      [] bucket = "LOCAL_BOOST"       -> "conversions"
      [] bucket = "MONITOR"           -> "freshness"

----------------------------------------------------------------------------
(* Engine cycle claims                                                     *)

\* The urls and scores of a list of tasks, in order
ScoresOf(tasks) == [i \in DOMAIN tasks |-> <<tasks[i].url, tasks[i].score>>]

C29_StatsReportLearnedWeights ==
    (cycle.pc = "done") =>
        \A m \in DOMAIN cycle.result.modelStats, b \in ACTION_BUCKETS :
            cycle.result.modelStats[m].weightsByBucket[b]
                = WeightOrZero(RowOf(defaultRows, cycle.result.modelWeights, b), m)

\* C30: for every outcome evaluated in a cycle, the verdict that drives the
\* content-weight step is the verdict that drives the provider-weight
\* step.
C30_BothAdjustersShareTheVerdict ==
    \A k \in DOMAIN cycle.evaluations :
        EvaluateActionSuccess(cycle.evaluations[k].action)
            = cycle.evaluations[k].success

====
